---- MODULE Spec2Model ----
(***************************************************************************)
(* Model of the takeoff-calculator state registry                          *)
(* (packages/bindings/src/state.rs, measurement.rs, group.rs) and of the   *)
(* geometry and scale value objects of crates/takeoff_core it relies on.   *)
(*                                                                         *)
(* Numbers: coordinates are integers, all segments of the input shapes are *)
(* axis aligned, areas and lengths are exact integers (the f64 -> f32 cast *)
(* and the uom base-unit conversion are exact on these values; every scale *)
(* of the input domain is in Meters).  Option<T> is a sequence of length   *)
(* 0 (None) or 1 (Some).  TakeoffResult<T> is a record [ok, val, err].     *)
(***************************************************************************)
EXTENDS Integers, Sequences, FiniteSets, TLC

(* ------------------------------------------------------------------ *)
(* Input domains                                                        *)
(* ------------------------------------------------------------------ *)
PageIds == {"p1", "p2"}
GroupIds == {"g1", "g2"}
MeasIds == {"m1", "m2"}
ScaleIds == {"s1", "s2"}

None == <<>>
Some(v) == <<v>>
IsSome(o) == Len(o) = 1
IsNone(o) == Len(o) = 0
Unwrap(o) == o[1]

Ok(v) == [ok |-> TRUE, val |-> <<v>>, err |-> ""]
Err(e) == [ok |-> FALSE, val |-> <<>>, err |-> e]

Pt(x, y) == [x |-> x, y |-> y]

(* ------------------------------------------------------------------ *)
(* Measurement (crates/takeoff_core/src/measurement.rs)                 *)
(* ------------------------------------------------------------------ *)
Measurement(kind, id, page_id, group_id, pts) ==
  [kind |-> kind, id |-> id, page_id |-> page_id, group_id |-> group_id, pts |-> pts]

\* The shapes offered to upsert_measurement.  The Area bounding box of the
\* input domain is (0,0)-(4,4): the Count, the Rectangle and the Polyline lie
\* inside it, the valid Polygon does not, the two-point Polygon is malformed.
CountIn == [kind |-> "Count", pts |-> <<Pt(2, 2)>>]
RectIn == [kind |-> "Rectangle", pts |-> <<Pt(0, 0), Pt(2, 2)>>]
PolyOut == [kind |-> "Polygon", pts |-> <<Pt(0, 0), Pt(6, 0), Pt(6, 2), Pt(0, 2)>>]
PolyBad == [kind |-> "Polygon", pts |-> <<Pt(0, 0), Pt(2, 0)>>]
LineIn == [kind |-> "Polyline", pts |-> <<Pt(0, 2), Pt(2, 2)>>]

Shapes == { CountIn, RectIn, PolyOut, PolyBad, LineIn }

\* The arguments of upsert_measurement: m1 with every shape on (p1, g1) and
\* with the rectangle on every page and group; m2 with the rectangle and the
\* polyline on p1 in either group.
Measurements ==
  { Measurement(s.kind, "m1", "p1", "g1", s.pts) : s \in Shapes }
  \cup { Measurement(RectIn.kind, "m1", p, g, RectIn.pts) : p \in PageIds, g \in GroupIds }
  \cup { Measurement(s.kind, "m2", "p1", g, s.pts) : s \in {RectIn, LineIn}, g \in GroupIds }

\* Page { id, name, .. }: width, height and viewport are carried along
\* unread and are left out
Page(id, name) == [id |-> id, name |-> name]

\* Group { id, .. } as upsert_group receives it and get_group() returns it
Group(id) == [id |-> id]

\* The arguments of upsert_page
Pages == { Page(p, <<>>) : p \in PageIds }

Abs(n) == IF n < 0 THEN -n ELSE n
Min(a, b) == IF a <= b THEN a ELSE b
Max(a, b) == IF a >= b THEN a ELSE b

\* f64::sqrt on the squared lengths the input shapes produce (perfect squares)
Sqrt(n) == CHOOSE k \in 0..n : k * k <= n /\ (k + 1) * (k + 1) > n

distance_to(p, q) ==
  LET dx == p.x - q.x
      dy == p.y - q.y
  IN Sqrt(dx * dx + dy * dy)

\* validation that accepts every Rectangle
validate_any_rectangle(m) ==
  CASE m.kind = "Polygon" ->
         IF Len(m.pts) < 3 THEN Err("EmptyGeometry") ELSE Ok(TRUE)
    [] m.kind = "Polyline" ->
         IF Len(m.pts) < 2 THEN Err("EmptyGeometry") ELSE Ok(TRUE)
    [] OTHER -> Ok(TRUE)

validate(m) ==
  CASE m.kind = "Polygon" ->
         IF Len(m.pts) < 3 THEN Err("EmptyGeometry") ELSE Ok(TRUE)
    [] m.kind = "Polyline" ->
         IF Len(m.pts) < 2 THEN Err("EmptyGeometry") ELSE Ok(TRUE)
    [] m.kind = "Rectangle" ->
         IF m.pts[1].x = m.pts[2].x /\ m.pts[1].y = m.pts[2].y
           THEN Err("EmptyGeometry") ELSE Ok(TRUE)
    [] OTHER -> Ok(TRUE)

\* geo::Rect::new(start, end).to_polygon(): the closed exterior ring (five
\* coordinates, the first repeated) of the normalised rectangle
RectRing(a, b) ==
  LET x1 == Min(a.x, b.x)
      x2 == Max(a.x, b.x)
      y1 == Min(a.y, b.y)
      y2 == Max(a.y, b.y)
  IN <<Pt(x1, y1), Pt(x1, y2), Pt(x2, y2), Pt(x2, y1), Pt(x1, y1)>>

\* The exterior ring of the polygon, or the error
to_polygon(m) ==
  IF ~validate(m).ok THEN Err("EmptyGeometry")
  ELSE CASE m.kind = "Polygon" -> Ok(m.pts)
         [] m.kind = "Rectangle" -> Ok(RectRing(m.pts[1], m.pts[2]))
         [] OTHER -> Err("EmptyGeometry")

\* A geo::Geometry: [g |-> "Point" | "LineString" | "Polygon", pts]
to_geometry(m) ==
  IF ~validate(m).ok THEN Err("EmptyGeometry")
  ELSE CASE m.kind = "Polygon" -> Ok([g |-> "Polygon", pts |-> Unwrap(to_polygon(m).val)])
         [] m.kind = "Rectangle" -> Ok([g |-> "Polygon", pts |-> Unwrap(to_polygon(m).val)])
         [] m.kind = "Polyline" -> Ok([g |-> "LineString", pts |-> m.pts])
         [] OTHER -> Ok([g |-> "Point", pts |-> <<m.pts[1]>>])

\* geo unsigned_area of a ring: the shoelace formula
RECURSIVE Shoelace(_, _)
Shoelace(ring, i) ==
  IF i > Len(ring) THEN 0
  ELSE LET j == (i % Len(ring)) + 1
       IN ring[i].x * ring[j].y - ring[j].x * ring[i].y + Shoelace(ring, i + 1)

unsigned_area(ring) == Abs(Shoelace(ring, 1)) \div 2

pixel_area(m) ==
  LET Area(polygon) ==
        IF ~polygon.ok THEN Err(polygon.err) ELSE Ok(unsigned_area(Unwrap(polygon.val)))
  IN Area(to_polygon(m))

\* sum of the edges i -> (i + 1) mod n of a ring
RECURSIVE RingPerimeter(_, _)
RingPerimeter(ring, i) ==
  IF i > Len(ring) THEN 0
  ELSE distance_to(ring[i], ring[(i % Len(ring)) + 1]) + RingPerimeter(ring, i + 1)

\* the chain with the edge from its last point back to its first
RECURSIVE ClosedChainLength(_, _)
ClosedChainLength(points, i) ==
  IF i > Len(points) THEN 0
  ELSE distance_to(points[i], points[(i % Len(points)) + 1]) + ClosedChainLength(points, i + 1)

\* sum of the segments i -> i + 1 of an open chain
RECURSIVE ChainLength(_, _)
ChainLength(points, i) ==
  IF i >= Len(points) THEN 0
  ELSE distance_to(points[i], points[i + 1]) + ChainLength(points, i + 1)

pixel_perimeter(m) ==
  IF ~validate(m).ok THEN Err("EmptyGeometry")
  ELSE CASE m.kind = "Polygon" -> Ok(RingPerimeter(m.pts, 1))
         [] m.kind = "Rectangle" -> Ok(RingPerimeter(Unwrap(to_polygon(m).val), 1))
         [] m.kind = "Polyline" -> Ok(ChainLength(m.pts, 1))
         [] OTHER -> Ok(0)

(* ------------------------------------------------------------------ *)
(* Scale (crates/takeoff_core/src/scale.rs)                             *)
(* ------------------------------------------------------------------ *)
ScaleDefinition(pixel_distance, real_distance) ==
  [pixel_distance |-> pixel_distance, real_distance |-> real_distance, unit |-> "Meters"]

ScaleDefinitions == { ScaleDefinition(1, 1), ScaleDefinition(2, 1) }

BoundingBoxes == { <<Pt(0, 0), Pt(4, 4)>> }

AreaScale(id, page_id, scale, bounding_box) ==
  [kind |-> "Area", id |-> id, page_id |-> page_id, scale |-> scale,
   bounding_box |-> bounding_box]

DefaultScale(id, page_id, scale) ==
  [kind |-> "Default", id |-> id, page_id |-> page_id, scale |-> scale,
   bounding_box |-> <<>>]

\* The arguments of upsert_scale: s1 as a Default scale of either page with
\* either definition or as an Area scale of p1; s2 as an Area scale of p1 with
\* either definition or as a Default scale of p1.
Scales ==
  { DefaultScale("s1", p, d) : p \in PageIds, d \in ScaleDefinitions }
  \cup { AreaScale("s1", "p1", ScaleDefinition(2, 1), b) : b \in BoundingBoxes }
  \cup { AreaScale("s2", "p1", d, b) : d \in ScaleDefinitions, b \in BoundingBoxes }
  \cup { DefaultScale("s2", "p1", ScaleDefinition(1, 1)) }

\* Scale::ratio: pixel_distance / real_distance as the fraction [num, den],
\* InvalidScale when either distance is not positive
ratio(scale) ==
  IF scale.scale.pixel_distance <= 0 \/ scale.scale.real_distance <= 0
    THEN Err("InvalidScale")
    ELSE Ok([num |-> scale.scale.pixel_distance, den |-> scale.scale.real_distance])

bounding_box_to_polygon(scale) == RectRing(scale.bounding_box[1], scale.bounding_box[2])

\* geo::Contains of the (non-degenerate, axis-aligned) bounding-box polygon:
\* a Point must lie in the interior; a LineString or Polygon must lie in the
\* closed box with its interior meeting the interior of the box (a chain
\* running along the boundary only is not contained).
Contains(box, geometry) ==
  LET x1 == box[1].x
      y1 == box[1].y
      x2 == box[3].x
      y2 == box[3].y
      pts == geometry.pts
      Closed(p) == x1 <= p.x /\ p.x <= x2 /\ y1 <= p.y /\ p.y <= y2
      Interior(p) == x1 < p.x /\ p.x < x2 /\ y1 < p.y /\ p.y < y2
      OnOneSide(p, q) ==
        \/ p.x = q.x /\ (p.x = x1 \/ p.x = x2)
        \/ p.y = q.y /\ (p.y = y1 \/ p.y = y2)
  IN CASE geometry.g = "Point" -> Interior(pts[1])
       [] geometry.g = "LineString" ->
            /\ \A i \in 1..Len(pts) : Closed(pts[i])
            /\ \E i \in 1..(Len(pts) - 1) : pts[i] # pts[i + 1] /\ ~OnOneSide(pts[i], pts[i + 1])
       [] OTHER -> \A i \in 1..Len(pts) : Closed(pts[i])

is_in_bounding_box(scale, geometry) ==
  IF scale.kind = "Area" THEN Contains(bounding_box_to_polygon(scale), geometry) ELSE FALSE

(* ------------------------------------------------------------------ *)
(* Registry state                                                       *)
(*   st.pages         id -> Page                                        *)
(*   st.groups        id -> GroupWrapper cells [area, length, points,   *)
(*                    count], each an Option                            *)
(*   st.measurements  id -> MeasurementWrapper cells [measurement,      *)
(*                    scale, area, length, points]                      *)
(*   st.scales        id -> Scale                                       *)
(*   st.poisoned      the poisoned field mutexes (LockM / LockG)        *)
(*   st.panicked      a registry call has panicked                      *)
(* Operators take the state and return the state after the call; an     *)
(* intermediate result that is used more than once is passed on as the  *)
(* argument of a local operator.                                        *)
(* ------------------------------------------------------------------ *)
LockM(id, field) == <<"measurement", id, field>>
LockG(id, field) == <<"group", id, field>>

Poisoned(st, lock) == lock \in st.poisoned

Panic(st) == [st EXCEPT !.panicked = TRUE]

\* the permutations of a finite set, as sequences: the orders in which a
\* DashMap iteration may visit the entries
Perms(S) ==
  { f \in [1..Cardinality(S) -> S] : \A i, j \in 1..Cardinality(S) : f[i] = f[j] => i = j }

(* ------------------------------------------------------------------ *)
(* MeasurementWrapper (packages/bindings/src/measurement.rs)            *)
(* ------------------------------------------------------------------ *)
MeasurementWrapper_new(measurement) ==
  [measurement |-> measurement,
   scale |-> None,
   area |-> None,
   length |-> None,
   points |-> CASE measurement.kind = "Count" -> 1
                [] measurement.kind = "Rectangle" -> 4
                [] OTHER -> Len(measurement.pts)]

raw_area(st, id) ==
  IF Poisoned(st, LockM(id, "measurement")) THEN Err("PoisonError")
  ELSE pixel_area(st.measurements[id].measurement)

raw_perimeter(st, id) ==
  IF Poisoned(st, LockM(id, "measurement")) THEN Err("PoisonError")
  ELSE pixel_perimeter(st.measurements[id].measurement)

\* raw / ratio^power for the TakeoffResults scale_ratio and raw
Scaled(scale_ratio, raw, power) ==
  IF ~scale_ratio.ok THEN Err(scale_ratio.err)
  ELSE IF ~raw.ok THEN Err(raw.err)
  ELSE IF power = 2
    THEN Ok(Some((Unwrap(raw.val) * Unwrap(scale_ratio.val).den * Unwrap(scale_ratio.val).den)
                 \div (Unwrap(scale_ratio.val).num * Unwrap(scale_ratio.val).num)))
    ELSE Ok(Some((Unwrap(raw.val) * Unwrap(scale_ratio.val).den) \div Unwrap(scale_ratio.val).num))

\* the area divided by the ratio once
calculate_area_unsquared(st, id) ==
  IF Poisoned(st, LockM(id, "scale")) THEN Err("PoisonError")
  ELSE IF IsSome(st.measurements[id].scale)
    THEN Scaled(ratio(Unwrap(st.measurements[id].scale)), raw_area(st, id), 1)
    ELSE Ok(None)

\* TakeoffResult<Option<Area>>: raw_area / ratio^2
calculate_area(st, id) ==
  IF Poisoned(st, LockM(id, "scale")) THEN Err("PoisonError")
  ELSE IF IsSome(st.measurements[id].scale)
    THEN Scaled(ratio(Unwrap(st.measurements[id].scale)), raw_area(st, id), 2)
    ELSE Ok(None)

\* the length with an invalid ratio taken as no scale
calculate_length_ratio_unchecked(st, id) ==
  IF Poisoned(st, LockM(id, "scale")) THEN Err("PoisonError")
  ELSE IF IsSome(st.measurements[id].scale) /\ ratio(Unwrap(st.measurements[id].scale)).ok
    THEN Scaled(ratio(Unwrap(st.measurements[id].scale)), raw_perimeter(st, id), 1)
    ELSE Ok(None)

\* TakeoffResult<Option<Length>>: raw_perimeter / ratio
calculate_length(st, id) ==
  IF Poisoned(st, LockM(id, "scale")) THEN Err("PoisonError")
  ELSE IF IsSome(st.measurements[id].scale)
    THEN Scaled(ratio(Unwrap(st.measurements[id].scale)), raw_perimeter(st, id), 1)
    ELSE Ok(None)

\* get_area_value / get_length_value: get-or-compute; the result is
\* [st, res]: the state after the read and the TakeoffResult<Option<_>>
get_area_value(st, id) ==
  LET Fill(c) ==
        IF ~c.ok THEN [st |-> st, res |-> c]
        ELSE [st |-> [st EXCEPT !.measurements[id].area = Unwrap(c.val)], res |-> c]
  IN IF Poisoned(st, LockM(id, "area")) THEN [st |-> st, res |-> Err("PoisonError")]
     ELSE IF IsNone(st.measurements[id].area) THEN Fill(calculate_area(st, id))
     ELSE [st |-> st, res |-> Ok(st.measurements[id].area)]

\* the length derived on every read and never stored
get_length_value_uncached(st, id) ==
  IF Poisoned(st, LockM(id, "length")) THEN [st |-> st, res |-> Err("PoisonError")]
  ELSE [st |-> st, res |-> calculate_length(st, id)]

get_length_value(st, id) ==
  LET Fill(c) ==
        IF ~c.ok THEN [st |-> st, res |-> c]
        ELSE [st |-> [st EXCEPT !.measurements[id].length = Unwrap(c.val)], res |-> c]
  IN IF Poisoned(st, LockM(id, "length")) THEN [st |-> st, res |-> Err("PoisonError")]
     ELSE IF IsNone(st.measurements[id].length) THEN Fill(calculate_length(st, id))
     ELSE [st |-> st, res |-> Ok(st.measurements[id].length)]

\* the getter MeasurementWrapper::get_area: the value a caller reads
\* (None for an error of get_area_value)
get_area(st, id) ==
  LET Value(r) == IF r.ok THEN Unwrap(r.val) ELSE None
  IN Value(get_area_value(st, id).res)

\* Unit::convert_area_to_unit / convert_length_to_unit of a value held in
\* (square) meters
Units == {"Meters", "Centimeters"}

convert_area_to_unit(unit, area) == IF unit = "Centimeters" THEN area * 10000 ELSE area

convert_length_to_unit(unit, length) == IF unit = "Centimeters" THEN length * 100 ELSE length

\* MeasurementWrapper::convert_area: Result<Option<f32>>
convert_area(st, id, unit) ==
  LET Convert(area) ==
        IF ~area.ok THEN Err(area.err)
        ELSE IF IsNone(Unwrap(area.val)) THEN Ok(None)
        ELSE Ok(Some(convert_area_to_unit(unit, Unwrap(Unwrap(area.val)))))
  IN Convert(calculate_area(st, id))

\* MeasurementWrapper::convert_length: Result<Option<f32>>
convert_length(st, id, unit) ==
  LET Convert(length) ==
        IF ~length.ok THEN Err(length.err)
        ELSE IF IsNone(Unwrap(length.val)) THEN Ok(None)
        ELSE Ok(Some(convert_length_to_unit(unit, Unwrap(Unwrap(length.val)))))
  IN Convert(calculate_length(st, id))

\* the getter MeasurementWrapper::get_length: Result<Option<UnitValue>>,
\* computed from the scale at every read
get_length(st, id) == calculate_length(st, id)

\* MeasurementWrapper::get_scale: None also when the scale mutex is poisoned
get_scale(st, id) ==
  IF Poisoned(st, LockM(id, "scale")) THEN None ELSE st.measurements[id].scale

\* get_measurements_missing_scale: the ids of the wrappers returned
get_measurements_missing_scale(st) ==
  { id \in DOMAIN st.measurements : IsNone(get_scale(st, id)) }

(* ------------------------------------------------------------------ *)
(* GroupWrapper (packages/bindings/src/group.rs)                        *)
(* ------------------------------------------------------------------ *)
get_measurements_by_group_id(st, group_id) ==
  { id \in DOMAIN st.measurements : st.measurements[id].measurement.group_id = group_id }

get_measurements_by_page_id(st, page_id) ==
  { id \in DOMAIN st.measurements : st.measurements[id].measurement.page_id = page_id }

\* an iteration over the measurement map that calls get_group_id() / page_id()
\* on every entry panics on a poisoned measurement mutex
IterationPanics(st) ==
  \E id \in DOMAIN st.measurements : Poisoned(st, LockM(id, "measurement"))

\* an absent value of the read r counted as 0
Accumulate_absent_as_zero(acc, r) ==
  IF r.ok /\ IsSome(Unwrap(r.val))
    THEN IF IsSome(acc) THEN Some(Unwrap(acc) + Unwrap(Unwrap(r.val))) ELSE Unwrap(r.val)
    ELSE IF IsSome(acc) THEN acc ELSE Some(0)

\* acc + the value of the read r when it is Ok(Some(v)): filter_map + reduce
Accumulate(acc, r) ==
  IF r.ok /\ IsSome(Unwrap(r.val))
    THEN IF IsSome(acc) THEN Some(Unwrap(acc) + Unwrap(Unwrap(r.val))) ELSE Unwrap(r.val)
    ELSE acc

\* GroupWrapper::calculate_area: every member serves get_area_value; the
\* result is [st, acc]: the state after the reads and the Option<Area> sum
RECURSIVE Group_calculate_area(_, _, _)
Group_calculate_area(st, measurements, acc) ==
  IF measurements = {} THEN [st |-> st, acc |-> acc]
  ELSE LET Step(id, r) == Group_calculate_area(r.st, measurements \ {id}, Accumulate(acc, r.res))
           Visit(id) == Step(id, get_area_value(st, id))
       IN Visit(CHOOSE x \in measurements : TRUE)

RECURSIVE Group_calculate_length(_, _, _)
Group_calculate_length(st, measurements, acc) ==
  IF measurements = {} THEN [st |-> st, acc |-> acc]
  ELSE LET Step(id, r) == Group_calculate_length(r.st, measurements \ {id}, Accumulate(acc, r.res))
           Visit(id) == Step(id, get_length_value(st, id))
       IN Visit(CHOOSE x \in measurements : TRUE)

RECURSIVE Group_calculate_points(_, _, _)
Group_calculate_points(st, measurements, acc) ==
  IF measurements = {} THEN acc
  ELSE LET Visit(id) ==
             Group_calculate_points(st, measurements \ {id},
               IF IsSome(acc) THEN Some(Unwrap(acc) + st.measurements[id].points)
               ELSE Some(st.measurements[id].points))
       IN Visit(CHOOSE x \in measurements : TRUE)

Group_calculate_count(measurements) == Some(Cardinality(measurements))

\* the recompute with the area summed onto the value the cell holds
Group_recompute_accumulating(st, group_id, cells) ==
  LET Write(measurements, a, l) ==
        IF Poisoned(st, LockG(group_id, "area")) THEN [st |-> a.st, cells |-> cells]
        ELSE IF Poisoned(st, LockG(group_id, "length"))
          THEN [st |-> l.st, cells |-> [cells EXCEPT !.area = a.acc]]
        ELSE IF Poisoned(st, LockG(group_id, "points"))
          THEN [st |-> l.st, cells |-> [cells EXCEPT !.area = a.acc, !.length = l.acc]]
        ELSE IF Poisoned(st, LockG(group_id, "count"))
          THEN [st |-> l.st,
                cells |-> [cells EXCEPT !.area = a.acc, !.length = l.acc,
                             !.points = Group_calculate_points(l.st, measurements, None)]]
        ELSE [st |-> l.st,
              cells |-> [area |-> a.acc, length |-> l.acc,
                         points |-> Group_calculate_points(l.st, measurements, None),
                         count |-> Group_calculate_count(measurements)]]
      Lengths(measurements, a) ==
        Write(measurements, a, Group_calculate_length(a.st, measurements, None))
      Areas(measurements) ==
        Lengths(measurements, Group_calculate_area(st, measurements, cells.area))
  IN IF IterationPanics(st) THEN [st |-> Panic(st), cells |-> cells]
     ELSE Areas(get_measurements_by_group_id(st, group_id))

\* GroupWrapper::recompute_measurements on the cells `cells` of the group
\* group_id; the result is [st, cells].  A poisoned field mutex ends the
\* recompute at that field.
Group_recompute(st, group_id, cells) ==
  LET Write(measurements, a, l) ==
        IF Poisoned(st, LockG(group_id, "area")) THEN [st |-> a.st, cells |-> cells]
        ELSE IF Poisoned(st, LockG(group_id, "length"))
          THEN [st |-> l.st, cells |-> [cells EXCEPT !.area = a.acc]]
        ELSE IF Poisoned(st, LockG(group_id, "points"))
          THEN [st |-> l.st, cells |-> [cells EXCEPT !.area = a.acc, !.length = l.acc]]
        ELSE IF Poisoned(st, LockG(group_id, "count"))
          THEN [st |-> l.st,
                cells |-> [cells EXCEPT !.area = a.acc, !.length = l.acc,
                             !.points = Group_calculate_points(l.st, measurements, None)]]
        ELSE [st |-> l.st,
              cells |-> [area |-> a.acc, length |-> l.acc,
                         points |-> Group_calculate_points(l.st, measurements, None),
                         count |-> Group_calculate_count(measurements)]]
      Lengths(measurements, a) ==
        Write(measurements, a, Group_calculate_length(a.st, measurements, None))
      Areas(measurements) ==
        Lengths(measurements, Group_calculate_area(st, measurements, None))
  IN IF IterationPanics(st) THEN [st |-> Panic(st), cells |-> cells]
     ELSE Areas(get_measurements_by_group_id(st, group_id))

GroupWrapper_recompute_measurements(st, group_id) ==
  LET Store(r) == [r.st EXCEPT !.groups[group_id] = r.cells]
  IN Store(Group_recompute(st, group_id, st.groups[group_id]))

\* the getters GroupWrapper::get_area / get_length / get_points / get_count:
\* None when the cell is empty or its mutex is poisoned
Group_get(st, group_id, field) ==
  IF Poisoned(st, LockG(group_id, field)) THEN None ELSE st.groups[group_id][field]

\* the writes of GroupWrapper::recompute_measurements, one cell each, from
\* the member snapshot `measurements`
Group_store_area(st, group_id, measurements) ==
  LET Store(a) == [a.st EXCEPT !.groups[group_id].area = a.acc]
  IN Store(Group_calculate_area(st, measurements, None))

Group_store_length(st, group_id, measurements) ==
  LET Store(l) == [l.st EXCEPT !.groups[group_id].length = l.acc]
  IN Store(Group_calculate_length(st, measurements, None))

Group_store_points(st, group_id, measurements) ==
  [st EXCEPT !.groups[group_id].points = Group_calculate_points(st, measurements, None)]

Group_store_count(st, group_id, measurements) ==
  [st EXCEPT !.groups[group_id].count = Group_calculate_count(measurements)]

(* ------------------------------------------------------------------ *)
(* TakeoffStateHandler (packages/bindings/src/state.rs)                 *)
(* The scoped worker of compute_measurement / compute_group is joined   *)
(* before the call returns and a panic of the worker is re-raised by    *)
(* thread::scope, so a sequential call is one step.                     *)
(* ------------------------------------------------------------------ *)
compute_group(st, group_id) ==
  IF st.panicked THEN st
  ELSE IF group_id \in DOMAIN st.groups
    THEN GroupWrapper_recompute_measurements(st, group_id)
    ELSE st

\* GroupWrapper::recompute_measurements returns Err: a cell mutex is poisoned
Group_recompute_fails(st, group_id) ==
  \E field \in {"area", "length", "points", "count"} : Poisoned(st, LockG(group_id, field))

\* compute_group of the wasm build: the recompute runs inline and its
\* result is unwrapped
compute_group_inline(st, group_id) ==
  IF st.panicked THEN st
  ELSE IF group_id \in DOMAIN st.groups
    THEN IF Group_recompute_fails(st, group_id)
           THEN Panic(GroupWrapper_recompute_measurements(st, group_id))
           ELSE GroupWrapper_recompute_measurements(st, group_id)
    ELSE st

\* MeasurementWrapper::recompute_measurements: an error of calculate_area or
\* calculate_length (or a poisoned cache mutex) returns early
recompute_measurements(st, id) ==
  LET StoreLength(st1, length) ==
        IF ~length.ok \/ Poisoned(st1, LockM(id, "length")) THEN st1
        ELSE IF Poisoned(st1, LockM(id, "measurement")) THEN Panic(st1)
        ELSE compute_group([st1 EXCEPT !.measurements[id].length = Unwrap(length.val)],
                           st1.measurements[id].measurement.group_id)
      Length(st1) == StoreLength(st1, calculate_length(st1, id))
      StoreArea(area) ==
        IF ~area.ok \/ Poisoned(st, LockM(id, "area")) THEN st
        ELSE Length([st EXCEPT !.measurements[id].area = Unwrap(area.val)])
  IN StoreArea(calculate_area(st, id))

set_scale(st, id, scale) ==
  IF Poisoned(st, LockM(id, "scale")) THEN Panic(st)
  ELSE recompute_measurements([st EXCEPT !.measurements[id].scale = Some(scale)], id)

set_measurement(st, id, measurement) ==
  IF Poisoned(st, LockM(id, "measurement")) THEN Panic(st)
  ELSE recompute_measurements([st EXCEPT !.measurements[id].measurement = measurement], id)

\* set_measurement up to the scoped worker of compute_group: the geometry and
\* the area and length cells; the result is [st, spawns]: spawns says whether
\* recompute_measurements reaches compute_group (no early return)
set_measurement_cells(st, id, measurement) ==
  LET StoreLength(st1, length) ==
        IF ~length.ok \/ Poisoned(st1, LockM(id, "length")) THEN [st |-> st1, spawns |-> FALSE]
        ELSE [st |-> [st1 EXCEPT !.measurements[id].length = Unwrap(length.val)],
              spawns |-> TRUE]
      Length(st1) == StoreLength(st1, calculate_length(st1, id))
      StoreArea(st1, area) ==
        IF ~area.ok \/ Poisoned(st1, LockM(id, "area")) THEN [st |-> st1, spawns |-> FALSE]
        ELSE Length([st1 EXCEPT !.measurements[id].area = Unwrap(area.val)])
      Area(st1) == StoreArea(st1, calculate_area(st1, id))
  IN IF Poisoned(st, LockM(id, "measurement")) THEN [st |-> Panic(st), spawns |-> FALSE]
     ELSE Area([st EXCEPT !.measurements[id].measurement = measurement])

\* the scales of every page in the iteration order `order`
get_scales_of_all_pages(st, page_id, order) ==
  [i \in 1..Len(order) |-> st.scales[order[i]]]

\* get_page_scales in the iteration order `order` (a permutation of the ids
\* of the scale map)
get_page_scales(st, page_id, order) ==
  SelectSeq([i \in 1..Len(order) |-> st.scales[order[i]]], LAMBDA s : s.page_id = page_id)

\* The loop of calculate_scale: the first Area scale of the sequence that
\* contains the geometry, otherwise the last Default scale, otherwise None
RECURSIVE ResolveLoop(_, _, _, _)
ResolveLoop(page_scales, geometry, i, current_scale) ==
  IF i > Len(page_scales) THEN current_scale
  ELSE IF page_scales[i].kind = "Area" /\ is_in_bounding_box(page_scales[i], geometry)
    THEN Some(page_scales[i])
  ELSE ResolveLoop(page_scales, geometry, i + 1,
                   IF page_scales[i].kind = "Area" THEN current_scale ELSE Some(page_scales[i]))

\* calculate_scale that clears the scale when no scale of the page applies
calculate_scale_clearing(st, id, order) ==
  LET Assign(found) ==
        IF IsSome(found) THEN set_scale(st, id, Unwrap(found))
        ELSE [st EXCEPT !.measurements[id].scale = None]
      Resolve(measurement, geometry) ==
        IF ~geometry.ok THEN st
        ELSE Assign(ResolveLoop(get_page_scales(st, measurement.page_id, order),
                                Unwrap(geometry.val), 1, None))
  IN IF st.panicked THEN st
     ELSE IF Poisoned(st, LockM(id, "measurement")) THEN st
     ELSE Resolve(st.measurements[id].measurement, to_geometry(st.measurements[id].measurement))

calculate_scale(st, id, order) ==
  LET Assign(found) == IF IsSome(found) THEN set_scale(st, id, Unwrap(found)) ELSE st
      Resolve(measurement, geometry) ==
        IF ~geometry.ok THEN st
        ELSE Assign(ResolveLoop(get_page_scales(st, measurement.page_id, order),
                                Unwrap(geometry.val), 1, None))
  IN IF st.panicked THEN st
     ELSE IF Poisoned(st, LockM(id, "measurement")) THEN st
     ELSE Resolve(st.measurements[id].measurement, to_geometry(st.measurements[id].measurement))

\* the Option<Scale> calculate_scale returns
calculate_scale_result(st, id, order) ==
  LET Resolve(measurement, geometry) ==
        IF ~geometry.ok THEN None
        ELSE ResolveLoop(get_page_scales(st, measurement.page_id, order),
                         Unwrap(geometry.val), 1, None)
  IN IF st.panicked THEN None
     ELSE IF Poisoned(st, LockM(id, "measurement")) THEN None
     ELSE Resolve(st.measurements[id].measurement, to_geometry(st.measurements[id].measurement))

compute_measurement(st, id, order) ==
  IF id \in DOMAIN st.measurements THEN calculate_scale(st, id, order) ELSE st

\* compute_measurement of the wasm build: calculate_scale runs inline
compute_measurement_inline(st, id, order) ==
  IF id \in DOMAIN st.measurements THEN calculate_scale(st, id, order) ELSE st

\* compute_page: calculate_scale on the measurements of the page, visited
\* in the order `visit`
RECURSIVE ComputePageLoop(_, _, _, _)
ComputePageLoop(st, visit, i, order) ==
  IF i > Len(visit) THEN st
  ELSE ComputePageLoop(calculate_scale(st, visit[i], order), visit, i + 1, order)

compute_page(st, visit, order) ==
  IF IterationPanics(st) THEN Panic(st)
  ELSE ComputePageLoop(st, visit, 1, order)

\* k |-> v added to (or replaced in) the map f
MapInsert(f, k, v) == [x \in DOMAIN f \cup {k} |-> IF x = k THEN v ELSE f[x]]

MapRemove(f, k) == [x \in DOMAIN f \ {k} |-> f[x]]

\* the mutexes of a wrapper leave with the wrapper
DropLocks(st, kind, id) ==
  [st EXCEPT !.poisoned = { l \in st.poisoned : ~(l[1] = kind /\ l[2] = id) }]

\* the returned Option<Page> with the page just given
upsert_page_result_new(st, page) == Some(page)

\* the Option<Page> DashMap::insert returns: the value stored before
upsert_page_result(st, page) ==
  IF page.id \in DOMAIN st.pages THEN Some(st.pages[page.id]) ELSE None

upsert_page(st, page) == [st EXCEPT !.pages = MapInsert(st.pages, page.id, page)]

\* the Option<Page> of remove_page: the removed page
remove_page_result(st, page_id) ==
  IF page_id \in DOMAIN st.pages THEN Some(st.pages[page_id]) ELSE None

\* removal of the page together with the measurements that name it
remove_page_with_measurements(st, page_id) ==
  [st EXCEPT !.pages = MapRemove(st.pages, page_id),
             !.measurements =
               [id \in { i \in DOMAIN st.measurements :
                           st.measurements[i].measurement.page_id # page_id }
                  |-> st.measurements[id]]]

remove_page(st, page_id) == [st EXCEPT !.pages = MapRemove(st.pages, page_id)]

\* a group wrapper whose cells are left as constructed
GroupWrapper_without_recompute(st, group_id) ==
  [st |-> DropLocks(st, "group", group_id),
   cells |-> [area |-> None, length |-> None, points |-> None, count |-> None]]

GroupWrapper_new(st, group_id) ==
  Group_recompute(DropLocks(st, "group", group_id), group_id,
                  [area |-> None, length |-> None, points |-> None, count |-> None])

\* the Option<Group> of upsert_group: Some(group_clone)
upsert_group_result(st, group_id) == Some(Group(group_id))

upsert_group(st, group_id) ==
  LET Insert(r) ==
        IF r.st.panicked THEN r.st
        ELSE [r.st EXCEPT !.groups = MapInsert(r.st.groups, group_id, r.cells)]
  IN Insert(GroupWrapper_new(st, group_id))

upsert_measurement(st, measurement, order) ==
  IF measurement.id \in DOMAIN st.measurements
    THEN set_measurement(st, measurement.id, measurement)
    ELSE compute_group(
           compute_measurement(
             [st EXCEPT !.measurements =
                MapInsert(st.measurements, measurement.id, MeasurementWrapper_new(measurement))],
             measurement.id, order),
           measurement.group_id)

\* the Option<Measurement> of upsert_measurement: get_measurement() of the
\* registered wrapper after set_measurement, else `res` of the insert
upsert_measurement_result(st, measurement, order) ==
  IF measurement.id \in DOMAIN st.measurements
    THEN Some(set_measurement(st, measurement.id, measurement)
                .measurements[measurement.id].measurement)
    ELSE None

\* nothing returned for a removed measurement
remove_measurement_result_none(st, measurement_id) == None

\* the Option<Measurement> of remove_measurement: get_measurement() of the
\* removed wrapper
remove_measurement_result(st, measurement_id) ==
  IF measurement_id \in DOMAIN st.measurements
    THEN Some(st.measurements[measurement_id].measurement)
    ELSE None

remove_measurement(st, measurement_id) ==
  LET Removed(st1) ==
        IF Poisoned(st, LockM(measurement_id, "measurement")) THEN Panic(st1)
        ELSE compute_group(st1, st.measurements[measurement_id].measurement.group_id)
  IN IF st.panicked THEN st
     ELSE IF measurement_id \in DOMAIN st.measurements
       THEN Removed(DropLocks([st EXCEPT !.measurements = MapRemove(st.measurements, measurement_id)],
                              "measurement", measurement_id))
       ELSE st

RECURSIVE RemoveAll(_, _, _)
RemoveAll(st, to_remove, i) ==
  IF i > Len(to_remove) THEN st
  ELSE RemoveAll(remove_measurement(st, to_remove[i]), to_remove, i + 1)

\* remove_group without the cascade over the measurements of the group
remove_group_without_cascade(st, group_id, to_remove) ==
  IF group_id \in DOMAIN st.groups
    THEN DropLocks([st EXCEPT !.groups = MapRemove(st.groups, group_id)], "group", group_id)
    ELSE st

\* to_remove: the ids of the measurements of the group, in iteration order
remove_group(st, group_id, to_remove) ==
  LET Cascade(st1) == IF IterationPanics(st1) THEN Panic(st1) ELSE RemoveAll(st1, to_remove, 1)
  IN IF group_id \in DOMAIN st.groups
       THEN Cascade(DropLocks([st EXCEPT !.groups = MapRemove(st.groups, group_id)],
                              "group", group_id))
       ELSE st

\* a group returned whether or not one was registered
remove_group_result_always(st, group_id) == Some(Group(group_id))

\* the Option<Group> of remove_group: get_group() of the removed wrapper
remove_group_result(st, group_id) ==
  IF group_id \in DOMAIN st.groups THEN Some(Group(group_id)) ELSE None

\* the Option<Scale> `res` of the insert: the scale stored before
upsert_scale_result(st, scale) ==
  IF scale.id \in DOMAIN st.scales THEN Some(st.scales[scale.id]) ELSE None

\* visit: the measurements of the page of the scale, in iteration order
upsert_scale(st, scale, visit, order) ==
  compute_page([st EXCEPT !.scales = MapInsert(st.scales, scale.id, scale)], visit, order)

\* the Option<Scale> of remove_scale: the removed scale
remove_scale_result(st, scale_id) ==
  IF scale_id \in DOMAIN st.scales THEN Some(st.scales[scale_id]) ELSE None

remove_scale(st, scale_id, visit, order) ==
  IF scale_id \in DOMAIN st.scales
    THEN compute_page([st EXCEPT !.scales = MapRemove(st.scales, scale_id)], visit, order)
    ELSE st

(* ------------------------------------------------------------------ *)
(* The registry as a state machine: one step per registry call          *)
(* ------------------------------------------------------------------ *)
VARIABLES pages, groups, measurements, scales, poisoned, panicked, last, nops, pc, snap,
          workers, ret, prog, held, handle

vars ==
  <<pages, groups, measurements, scales, poisoned, panicked, last, nops, pc, snap, workers,
    ret, prog, held, handle>>

\* the number of registry calls of a run
MaxOps == 4

\* the number of threads that call upsert_measurement concurrently
NThreads == 2

Threads == 1..NThreads

St ==
  [pages |-> pages, groups |-> groups, measurements |-> measurements,
   scales |-> scales, poisoned |-> poisoned, panicked |-> panicked]

\* pc, snap: the position of each concurrent caller of upsert_measurement and
\* the member snapshot its group recompute took ("idle" in a sequential run).
\* workers: the scoped workers the call in progress has spawned, each with
\* whether it has finished.
\* ret: the value the last read of a measurement returned.
\* prog, held: for each thread of a run at lock granularity, the lock steps
\* its call has still to take and the locks it holds, in acquisition order.
\* handle: the wrapper clone a caller obtained from get_measurement or
\* get_group and still keeps (None where no caller keeps one).
\* nops: the number of calls made so far.
\* last: the call that produced the state: its name, the id it was given and,
\* for upsert_measurement, whether the id was registered before (n = 1), for
\* remove_group, the number of measurements the cascade removed
Call(op, id, n) == [op |-> op, id |-> id, n |-> n]

Becomes(st, call) ==
  /\ pages' = st.pages
  /\ groups' = st.groups
  /\ measurements' = st.measurements
  /\ scales' = st.scales
  /\ poisoned' = st.poisoned
  /\ panicked' = st.panicked
  /\ last' = call
  /\ nops' = nops + 1
  /\ UNCHANGED <<pc, snap, workers, ret, prog, held, handle>>

EmptyMap == [x \in {} |-> {}]

\* TakeoffStateHandler::new(None)
Init ==
  /\ pages = EmptyMap
  /\ groups = EmptyMap
  /\ measurements = EmptyMap
  /\ scales = EmptyMap
  /\ poisoned = {}
  /\ panicked = FALSE
  /\ last = Call("new", "", 0)
  /\ nops = 0
  /\ pc = [t \in Threads |-> "idle"]
  /\ snap = [t \in Threads |-> {}]
  /\ workers = {}
  /\ ret = None
  /\ prog = [t \in Threads |-> <<>>]
  /\ held = [t \in Threads |-> <<>>]
  /\ handle = None

UpsertPage ==
  \E page \in Pages :
    /\ ~panicked /\ nops < MaxOps
    /\ Becomes(upsert_page(St, page), Call("upsert_page", page.id, 0))

RemovePage ==
  \E p \in PageIds :
    /\ ~panicked /\ nops < MaxOps
    /\ Becomes(remove_page(St, p), Call("remove_page", p, 0))

UpsertGroup ==
  \E g \in GroupIds :
    /\ ~panicked /\ nops < MaxOps
    /\ Becomes(upsert_group(St, g), Call("upsert_group", g, 0))

RemoveGroup ==
  \E g \in GroupIds :
    \E to_remove \in Perms(get_measurements_by_group_id(St, g)) :
      /\ ~panicked /\ nops < MaxOps
      /\ Becomes(remove_group(St, g, to_remove),
                 Call("remove_group", g, IF g \in DOMAIN groups THEN Len(to_remove) ELSE 0))

UpsertMeasurement ==
  \E m \in Measurements :
    \E order \in Perms(DOMAIN scales) :
      /\ ~panicked /\ nops < MaxOps
      /\ Becomes(upsert_measurement(St, m, order),
                 Call("upsert_measurement", m.id, IF m.id \in DOMAIN measurements THEN 1 ELSE 0))

RemoveMeasurement ==
  \E id \in MeasIds :
    /\ ~panicked /\ nops < MaxOps
    /\ Becomes(remove_measurement(St, id), Call("remove_measurement", id, 0))

UpsertScale ==
  \E s \in Scales :
    \E visit \in Perms(get_measurements_by_page_id(St, s.page_id)) :
      \E order \in Perms(DOMAIN scales \cup {s.id}) :
        /\ ~panicked /\ nops < MaxOps
        /\ Becomes(upsert_scale(St, s, visit, order), Call("upsert_scale", s.id, 0))

RemoveScale ==
  \E id \in ScaleIds :
    \E visit \in Perms(IF id \in DOMAIN scales
                         THEN get_measurements_by_page_id(St, scales[id].page_id) ELSE {}) :
      \E order \in Perms(DOMAIN scales \ {id}) :
        /\ ~panicked /\ nops < MaxOps
        /\ Becomes(remove_scale(St, id, visit, order), Call("remove_scale", id, 0))

\* MeasurementWrapper::get_area on a registered measurement (get-or-compute)
GetArea ==
  \E id \in DOMAIN measurements :
    /\ ~panicked /\ nops < MaxOps
    /\ Becomes(get_area_value(St, id).st, Call("get_area", id, 0))

Next ==
  \/ UpsertPage
  \/ RemovePage
  \/ UpsertGroup
  \/ RemoveGroup
  \/ UpsertMeasurement
  \/ RemoveMeasurement
  \/ UpsertScale
  \/ RemoveScale
  \/ GetArea

Spec == Init /\ [][Next]_vars

(* ------------------------------------------------------------------ *)
(* Runs with a poisoned mutex (SpecPoison)                              *)
(* std::sync::Mutex::lock returns a PoisonError for ever after a thread *)
(* has panicked while it held the guard.  Poison is that event on one   *)
(* field mutex of a registered wrapper; the registry calls then run on  *)
(* the poisoned state.                                                  *)
(* ------------------------------------------------------------------ *)
\* the number of mutexes that get poisoned in a run
MaxPoisoned == 1

Locks(st) ==
  { LockM(id, field) : id \in DOMAIN st.measurements,
                       field \in {"measurement", "scale", "area", "length"} }
  \cup { LockG(id, field) : id \in DOMAIN st.groups,
                            field \in {"area", "length", "points", "count"} }

Poison ==
  \E lock \in Locks(St) \ poisoned :
    /\ ~panicked /\ nops < MaxOps
    /\ Cardinality(poisoned) < MaxPoisoned
    /\ Becomes([St EXCEPT !.poisoned = poisoned \cup {lock}], Call("poison", lock[2], 0))

NextPoison ==
  \/ Next
  \/ Poison

SpecPoison == Init /\ [][NextPoison]_vars

(* ------------------------------------------------------------------ *)
(* Concurrent callers of upsert_measurement (SpecConc)                  *)
(* NThreads threads call upsert_measurement, each with a fresh id of    *)
(* its own and all with group g1, on a registry that holds g1 (and, in  *)
(* one of the two start states, a Default scale of page p1).  A call is *)
(* the steps of its code that other threads can observe: the insert,    *)
(* compute_measurement, and compute_group as the member snapshot and    *)
(* the four cell writes, each under the mutex of its cell alone.  The   *)
(* recompute that set_scale runs inside compute_measurement is taken as *)
(* one step, so the runs here are a subset of the program's.  No mutex  *)
(* is poisoned in these runs.                                           *)
(* ------------------------------------------------------------------ *)
ThreadIds == <<"m1", "m2", "m3">>

ThreadMeasurement(t) == Measurement(RectIn.kind, ThreadIds[t], "p1", "g1", RectIn.pts)

EmptyState ==
  [pages |-> EmptyMap, groups |-> EmptyMap, measurements |-> EmptyMap, scales |-> EmptyMap,
   poisoned |-> {}, panicked |-> FALSE]

ConcStarts ==
  { upsert_group(EmptyState, "g1"),
    upsert_scale(upsert_group(EmptyState, "g1"),
                 DefaultScale("s1", "p1", ScaleDefinition(2, 1)), <<>>, <<"s1">>) }

InitConc ==
  \E st \in ConcStarts :
    /\ pages = st.pages
    /\ groups = st.groups
    /\ measurements = st.measurements
    /\ scales = st.scales
    /\ poisoned = st.poisoned
    /\ panicked = st.panicked
    /\ last = Call("new", "", 0)
    /\ nops = 0
    /\ pc = [t \in Threads |-> "insert"]
    /\ snap = [t \in Threads |-> {}]
    /\ workers = {}
    /\ ret = None
    /\ prog = [t \in Threads |-> <<>>]
    /\ held = [t \in Threads |-> <<>>]
    /\ handle = None

\* thread t moves to `next` and the registry becomes st
ConcStep(t, st, next) ==
  /\ pages' = st.pages
  /\ groups' = st.groups
  /\ measurements' = st.measurements
  /\ scales' = st.scales
  /\ poisoned' = st.poisoned
  /\ panicked' = st.panicked
  /\ pc' = [pc EXCEPT ![t] = next]
  /\ UNCHANGED <<last, nops, workers, ret, prog, held, handle>>

\* self.measurements.insert(id, MeasurementWrapper::new(..))
ConcInsert ==
  \E t \in Threads :
    /\ pc[t] = "insert"
    /\ ConcStep(t, [St EXCEPT !.measurements =
                      MapInsert(measurements, ThreadIds[t],
                                MeasurementWrapper_new(ThreadMeasurement(t)))], "resolve")
    /\ UNCHANGED snap

\* self.compute_measurement(&id)
ConcResolve ==
  \E t \in Threads :
    \E order \in Perms(DOMAIN scales) :
      /\ pc[t] = "resolve"
      /\ ConcStep(t, compute_measurement(St, ThreadIds[t], order), "snapshot")
      /\ UNCHANGED snap

\* self.compute_group(group_id): the group lookup and the member snapshot
ConcSnapshot ==
  \E t \in Threads :
    /\ pc[t] = "snapshot"
    /\ ConcStep(t, St, IF ThreadMeasurement(t).group_id \in DOMAIN groups THEN "area" ELSE "done")
    /\ snap' = [snap EXCEPT ![t] = get_measurements_by_group_id(St, ThreadMeasurement(t).group_id)]

ConcStoreArea ==
  \E t \in Threads :
    /\ pc[t] = "area"
    /\ ConcStep(t, Group_store_area(St, ThreadMeasurement(t).group_id, snap[t]), "length")
    /\ UNCHANGED snap

ConcStoreLength ==
  \E t \in Threads :
    /\ pc[t] = "length"
    /\ ConcStep(t, Group_store_length(St, ThreadMeasurement(t).group_id, snap[t]), "points")
    /\ UNCHANGED snap

ConcStorePoints ==
  \E t \in Threads :
    /\ pc[t] = "points"
    /\ ConcStep(t, Group_store_points(St, ThreadMeasurement(t).group_id, snap[t]), "count")
    /\ UNCHANGED snap

ConcStoreCount ==
  \E t \in Threads :
    /\ pc[t] = "count"
    /\ ConcStep(t, Group_store_count(St, ThreadMeasurement(t).group_id, snap[t]), "done")
    /\ UNCHANGED snap

NextConc ==
  \/ ConcInsert
  \/ ConcResolve
  \/ ConcSnapshot
  \/ ConcStoreArea
  \/ ConcStoreLength
  \/ ConcStorePoints
  \/ ConcStoreCount

SpecConc == InitConc /\ [][NextConc]_vars

(* ------------------------------------------------------------------ *)
(* One call with its scoped workers (SpecJoin)                          *)
(* compute_measurement and compute_group run their work in a thread     *)
(* spawned inside std::thread::scope.  One caller (thread 1) makes one  *)
(* upsert_measurement or remove_measurement call on a registry that     *)
(* holds group g1 with member m1 (and, in some start states, a Default  *)
(* scale of p1); a worker is [job, id, done].                           *)
(* ------------------------------------------------------------------ *)
JoinStarts ==
  UNION { { upsert_measurement(s, Measurement(sh.kind, "m1", "p1", "g1", sh.pts), order) :
              order \in Perms(DOMAIN s.scales) } :
          s \in ConcStarts, sh \in {RectIn, LineIn} }

Worker(job, id) == [job |-> job, id |-> id, done |-> FALSE]

\* thread::scope without the join: returns while workers still run
scope_detached(ws) == TRUE

\* thread::scope returns when every thread spawned in it has finished
scope_joined(ws) == \A w \in ws : w.done

\* compute_group spawns its worker only for a registered group
GroupWorkers(st, group_id) ==
  IF group_id \in DOMAIN st.groups THEN {Worker("group", group_id)} ELSE {}

InitJoin ==
  \E st \in JoinStarts :
    /\ pages = st.pages
    /\ groups = st.groups
    /\ measurements = st.measurements
    /\ scales = st.scales
    /\ poisoned = st.poisoned
    /\ panicked = st.panicked
    /\ last = Call("new", "", 0)
    /\ nops = 0
    /\ pc = [t \in Threads |-> IF t = 1 THEN "call" ELSE "idle"]
    /\ snap = [t \in Threads |-> {}]
    /\ workers = {}
    /\ ret = None
    /\ prog = [t \in Threads |-> <<>>]
    /\ held = [t \in Threads |-> <<>>]
    /\ handle = None

\* the caller moves on: the registry becomes st and the workers spawned are
\* added; it has returned when it has no scope left to wait in
JoinStep(st, spawned, scope, call) ==
  /\ pages' = st.pages
  /\ groups' = st.groups
  /\ measurements' = st.measurements
  /\ scales' = st.scales
  /\ poisoned' = st.poisoned
  /\ panicked' = st.panicked
  /\ workers' = workers \cup spawned
  /\ pc' = [pc EXCEPT ![1] = IF spawned = {} THEN "returned" ELSE scope]
  /\ last' = call
  /\ UNCHANGED <<nops, snap, ret, prog, held, handle>>

\* upsert_measurement, fresh id: the insert, then compute_measurement
JoinCallUpsertFresh ==
  \E m \in Measurements :
    /\ pc[1] = "call"
    /\ m.id \notin DOMAIN measurements
    /\ JoinStep([St EXCEPT !.measurements =
                   MapInsert(measurements, m.id, MeasurementWrapper_new(m))],
                {Worker("measurement", m.id)}, "scope_measurement",
                Call("upsert_measurement", m.id, 0))

\* upsert_measurement, registered id: set_measurement up to compute_group
JoinCallUpsertExisting ==
  \E m \in Measurements :
    LET Cells(r) ==
          JoinStep(r.st, IF r.spawns THEN GroupWorkers(r.st, m.group_id) ELSE {},
                   "scope_group", Call("upsert_measurement", m.id, 1))
    IN /\ pc[1] = "call"
       /\ m.id \in DOMAIN measurements
       /\ Cells(set_measurement_cells(St, m.id, m))

\* remove_measurement: the removal, then compute_group of its group
JoinCallRemove ==
  \E id \in DOMAIN measurements :
    /\ pc[1] = "call"
    /\ JoinStep(DropLocks([St EXCEPT !.measurements = MapRemove(measurements, id)],
                          "measurement", id),
                GroupWorkers(St, measurements[id].measurement.group_id),
                "scope_group", Call("remove_measurement", id, 0))

\* a worker runs to its end: the registry becomes st
WorkerStep(w, st) ==
  /\ pages' = st.pages
  /\ groups' = st.groups
  /\ measurements' = st.measurements
  /\ scales' = st.scales
  /\ poisoned' = st.poisoned
  /\ panicked' = st.panicked
  /\ workers' = (workers \ {w}) \cup {[w EXCEPT !.done = TRUE]}
  /\ UNCHANGED <<pc, last, nops, snap, ret, prog, held, handle>>

\* the worker of compute_measurement: measurement.calculate_scale()
JoinWorkerMeasurement ==
  \E w \in workers :
    \E order \in Perms(DOMAIN scales) :
      /\ w.job = "measurement" /\ ~w.done
      /\ WorkerStep(w, calculate_scale(St, w.id, order))

\* the worker of compute_group: group.recompute_measurements()
JoinWorkerGroup ==
  \E w \in workers :
    /\ w.job = "group" /\ ~w.done
    /\ WorkerStep(w, GroupWrapper_recompute_measurements(St, w.id))

\* the scope of compute_measurement ends; upsert_measurement goes on to
\* compute_group(measurement.group_id())
JoinScopeExitMeasurement ==
  /\ pc[1] = "scope_measurement"
  /\ scope_joined(workers)
  /\ JoinStep(St, GroupWorkers(St, measurements[last.id].measurement.group_id),
              "scope_group", last)

\* the scope of compute_group ends and the call returns
JoinScopeExitGroup ==
  /\ pc[1] = "scope_group"
  /\ scope_joined(workers)
  /\ pc' = [pc EXCEPT ![1] = "returned"]
  /\ UNCHANGED <<pages, groups, measurements, scales, poisoned, panicked, last, nops, snap,
                 workers, ret, prog, held, handle>>

NextJoin ==
  \/ JoinCallUpsertFresh
  \/ JoinCallUpsertExisting
  \/ JoinCallRemove
  \/ JoinWorkerMeasurement
  \/ JoinWorkerGroup
  \/ JoinScopeExitMeasurement
  \/ JoinScopeExitGroup

SpecJoin == InitJoin /\ [][NextJoin]_vars

(* ------------------------------------------------------------------ *)
(* Reads of one measurement (SpecRead)                                  *)
(* A wrapper m1 is built from a measurement of the input domain below,  *)
(* with no scale or with a Default scale set on it, and is then read.   *)
(* The points are the corners of a 6 x 8 box: every distance between    *)
(* two of them is 0, 6, 8 or 10.                                        *)
(* ------------------------------------------------------------------ *)
ReadPoints == { Pt(x, y) : x \in {0, 6}, y \in {0, 8} }

\* the longest point list of a Polygon or Polyline
MaxPoints == 3

PointLists == UNION { [1..n -> ReadPoints] : n \in 0..MaxPoints }

ReadMeasurements ==
  { Measurement("Count", "m1", "p1", "g1", <<p>>) : p \in ReadPoints }
  \cup { Measurement("Rectangle", "m1", "p1", "g1", <<p, q>>) : p, q \in ReadPoints }
  \cup { Measurement(k, "m1", "p1", "g1", pts) : k \in {"Polygon", "Polyline"}, pts \in PointLists }

\* the definitions of the scale set on the wrapper: the two of the registry
\* runs and three with a distance that is not positive
ReadScaleDefinitions ==
  ScaleDefinitions
  \cup { ScaleDefinition(0, 1), ScaleDefinition(2, 0), ScaleDefinition(0 - 2, 1) }

ReadScales == { DefaultScale("s1", "p1", d) : d \in ReadScaleDefinitions }

ReadStarts ==
  LET New(m) == [EmptyState EXCEPT !.measurements = MapInsert(EmptyMap, m.id, MeasurementWrapper_new(m))]
  IN { New(m) : m \in ReadMeasurements }
     \cup { set_scale(New(m), m.id, scale) : m \in ReadMeasurements, scale \in ReadScales }

InitRead ==
  \E st \in ReadStarts :
    /\ pages = st.pages
    /\ groups = st.groups
    /\ measurements = st.measurements
    /\ scales = st.scales
    /\ poisoned = st.poisoned
    /\ panicked = st.panicked
    /\ last = Call("new", "m1", 0)
    /\ nops = 0
    /\ pc = [t \in Threads |-> "idle"]
    /\ snap = [t \in Threads |-> {}]
    /\ workers = {}
    /\ ret = None
    /\ prog = [t \in Threads |-> <<>>]
    /\ held = [t \in Threads |-> <<>>]
    /\ handle = None

\* the read op of measurement id returns value and leaves the registry as st
Reads(op, id, st, value) ==
  /\ pages' = st.pages
  /\ groups' = st.groups
  /\ measurements' = st.measurements
  /\ scales' = st.scales
  /\ poisoned' = st.poisoned
  /\ panicked' = st.panicked
  /\ last' = Call(op, id, 0)
  /\ ret' = value
  /\ UNCHANGED <<nops, pc, snap, workers, prog, held, handle>>

ReadValidate ==
  \E id \in DOMAIN measurements : Reads("validate", id, St, validate(measurements[id].measurement))

ReadToGeometry ==
  \E id \in DOMAIN measurements :
    Reads("to_geometry", id, St, to_geometry(measurements[id].measurement))

ReadPixelArea ==
  \E id \in DOMAIN measurements :
    Reads("pixel_area", id, St, pixel_area(measurements[id].measurement))

ReadPixelPerimeter ==
  \E id \in DOMAIN measurements :
    Reads("pixel_perimeter", id, St, pixel_perimeter(measurements[id].measurement))

ReadRawArea ==
  \E id \in DOMAIN measurements : Reads("raw_area", id, St, raw_area(St, id))

ReadRawPerimeter ==
  \E id \in DOMAIN measurements : Reads("raw_perimeter", id, St, raw_perimeter(St, id))

ReadConvertArea ==
  \E id \in DOMAIN measurements : \E unit \in Units :
    Reads("convert_area", id, St, convert_area(St, id, unit))

ReadConvertLength ==
  \E id \in DOMAIN measurements : \E unit \in Units :
    Reads("convert_length", id, St, convert_length(St, id, unit))

ReadGetArea ==
  \E id \in DOMAIN measurements :
    Reads("get_area", id, get_area_value(St, id).st, get_area(St, id))

ReadGetLength ==
  \E id \in DOMAIN measurements : Reads("get_length", id, St, get_length(St, id))

ReadGetAreaValue ==
  \E id \in DOMAIN measurements :
    Reads("get_area_value", id, get_area_value(St, id).st, get_area_value(St, id).res)

ReadGetLengthValue ==
  \E id \in DOMAIN measurements :
    Reads("get_length_value", id, get_length_value(St, id).st, get_length_value(St, id).res)

ReadRatio ==
  \E id \in DOMAIN measurements :
    /\ IsSome(measurements[id].scale)
    /\ Reads("ratio", id, St, ratio(Unwrap(measurements[id].scale)))

ReadCalculateArea ==
  \E id \in DOMAIN measurements : Reads("calculate_area", id, St, calculate_area(St, id))

ReadCalculateLength ==
  \E id \in DOMAIN measurements : Reads("calculate_length", id, St, calculate_length(St, id))

ReadCalculateScale ==
  \E id \in DOMAIN measurements : \E order \in Perms(DOMAIN scales) :
    Reads("calculate_scale", id, calculate_scale(St, id, order),
          calculate_scale_result(St, id, order))

NextRead ==
  \/ ReadValidate
  \/ ReadToGeometry
  \/ ReadPixelArea
  \/ ReadPixelPerimeter
  \/ ReadRawArea
  \/ ReadRawPerimeter
  \/ ReadConvertArea
  \/ ReadConvertLength
  \/ ReadGetArea
  \/ ReadGetLength
  \/ ReadGetAreaValue
  \/ ReadGetLengthValue
  \/ ReadRatio
  \/ ReadCalculateArea
  \/ ReadCalculateLength
  \/ ReadCalculateScale

SpecRead == InitRead /\ [][NextRead]_vars

(* ------------------------------------------------------------------ *)
(* Return values of the upserts (SpecReturn)                            *)
(* Sequential calls on the page p1, the scale s1 and the measurement    *)
(* m1 and the groups; ret holds what the last call returned.            *)
(* ------------------------------------------------------------------ *)
PageNames == { <<>>, <<"plan">> }

ReturnPages == { Page("p1", name) : name \in PageNames }

ReturnScales == { s \in Scales : s.id = "s1" /\ s.page_id = "p1" }

ReturnMeasurements == { m \in Measurements : m.id = "m1" /\ m.page_id = "p1" /\ m.group_id = "g1" }

Returns(st, call, value) ==
  /\ pages' = st.pages
  /\ groups' = st.groups
  /\ measurements' = st.measurements
  /\ scales' = st.scales
  /\ poisoned' = st.poisoned
  /\ panicked' = st.panicked
  /\ last' = call
  /\ nops' = nops + 1
  /\ ret' = value
  /\ UNCHANGED <<pc, snap, workers, prog, held, handle>>

ReturnUpsertPage ==
  \E page \in ReturnPages :
    /\ ~panicked /\ nops < MaxOps
    /\ Returns(upsert_page(St, page), Call("upsert_page", page.id, 0),
               upsert_page_result(St, page))

ReturnUpsertScale ==
  \E s \in ReturnScales :
    \E visit \in Perms(get_measurements_by_page_id(St, s.page_id)) :
      \E order \in Perms(DOMAIN scales \cup {s.id}) :
        /\ ~panicked /\ nops < MaxOps
        /\ Returns(upsert_scale(St, s, visit, order), Call("upsert_scale", s.id, 0),
                   upsert_scale_result(St, s))

ReturnUpsertMeasurement ==
  \E m \in ReturnMeasurements :
    \E order \in Perms(DOMAIN scales) :
      /\ ~panicked /\ nops < MaxOps
      /\ Returns(upsert_measurement(St, m, order),
                 Call("upsert_measurement", m.id, IF m.id \in DOMAIN measurements THEN 1 ELSE 0),
                 upsert_measurement_result(St, m, order))

ReturnUpsertGroup ==
  \E g \in GroupIds :
    /\ ~panicked /\ nops < MaxOps
    /\ Returns(upsert_group(St, g), Call("upsert_group", g, IF g \in DOMAIN groups THEN 1 ELSE 0),
               upsert_group_result(St, g))

ReturnRemovePage ==
  \E p \in PageIds :
    /\ ~panicked /\ nops < MaxOps
    /\ Returns(remove_page(St, p), Call("remove_page", p, 0), remove_page_result(St, p))

ReturnRemoveGroup ==
  \E g \in GroupIds :
    \E to_remove \in Perms(get_measurements_by_group_id(St, g)) :
      /\ ~panicked /\ nops < MaxOps
      /\ Returns(remove_group(St, g, to_remove),
                 Call("remove_group", g, IF g \in DOMAIN groups THEN Len(to_remove) ELSE 0),
                 remove_group_result(St, g))

ReturnRemoveMeasurement ==
  \E id \in MeasIds :
    /\ ~panicked /\ nops < MaxOps
    /\ Returns(remove_measurement(St, id), Call("remove_measurement", id, 0),
               remove_measurement_result(St, id))

ReturnRemoveScale ==
  \E id \in ScaleIds :
    \E visit \in Perms(IF id \in DOMAIN scales
                         THEN get_measurements_by_page_id(St, scales[id].page_id) ELSE {}) :
      \E order \in Perms(DOMAIN scales \ {id}) :
        /\ ~panicked /\ nops < MaxOps
        /\ Returns(remove_scale(St, id, visit, order), Call("remove_scale", id, 0),
                   remove_scale_result(St, id))

NextReturn ==
  \/ ReturnUpsertPage
  \/ ReturnUpsertGroup
  \/ ReturnUpsertScale
  \/ ReturnUpsertMeasurement
  \/ ReturnRemovePage
  \/ ReturnRemoveGroup
  \/ ReturnRemoveMeasurement
  \/ ReturnRemoveScale

SpecReturn == Init /\ [][NextReturn]_vars

(* ------------------------------------------------------------------ *)
(* Calls at lock granularity (SpecLock)                                 *)
(* Each thread makes one call on a registry that holds the group g1     *)
(* with the members m1 and m2 on page p1.  A call is the sequence of    *)
(* its lock steps <<kind, lock>>: "lock" / "unlock" of a field mutex,   *)
(* "read" / "unread" and "write" / "unwrite" of the shard lock of a     *)
(* DashMap (one shard per map; a read is admitted when no writer holds  *)
(* the shard, a write when nobody holds it).  A scoped worker runs      *)
(* while its spawner waits in the join, so its steps are steps of the   *)
(* call.  Which branch a read takes (value cached or computed) is       *)
(* chosen with the call.                                                *)
(* ------------------------------------------------------------------ *)
Shard(map) == <<"shard", map, "rw">>

\* a MutexGuard around body
Guarded(lock, body) == <<<<"lock", lock>>>> \o body \o <<<<"unlock", lock>>>>

\* a dashmap Ref (get, iter) around body
ReadRef(map, body) == <<<<"read", Shard(map)>>>> \o body \o <<<<"unread", Shard(map)>>>>

\* insert / remove of a DashMap, or a RefMut (get_mut) around body
WriteRef(map, body) == <<<<"write", Shard(map)>>>> \o body \o <<<<"unwrite", Shard(map)>>>>

\* the programs f[ids[i]], ..., f[ids[Len(ids)]] one after the other
RECURSIVE Each(_, _, _)
Each(ids, i, f) == IF i > Len(ids) THEN <<>> ELSE f[ids[i]] \o Each(ids, i + 1, f)

LockEntries == <<"m1", "m2">>

\* id(), page_id(), get_group_id(), get_measurement(), raw_area(),
\* raw_perimeter(): the measurement mutex for the duration of the read
measurement_locks(id) == Guarded(LockM(id, "measurement"), <<>>)

calculate_area_locks(id) == Guarded(LockM(id, "scale"), measurement_locks(id))

\* calculate_length taking the measurement mutex before the scale mutex
calculate_length_locks_reversed(id) ==
  Guarded(LockM(id, "measurement"), Guarded(LockM(id, "scale"), <<>>))

calculate_length_locks(id) == Guarded(LockM(id, "scale"), measurement_locks(id))

get_area_value_locks(id, cached) ==
  Guarded(LockM(id, "area"), IF cached THEN <<>> ELSE calculate_area_locks(id))

get_length_value_locks(id, cached) ==
  Guarded(LockM(id, "length"), IF cached THEN <<>> ELSE calculate_length_locks(id))

\* GroupWrapper::recompute_measurements: the member snapshot, then each cell
\* computed before its mutex is taken
GroupWrapper_recompute_locks(group_id, cached) ==
  ReadRef("measurements", Each(LockEntries, 1, [id \in MeasIds |-> measurement_locks(id)]))
  \o Each(LockEntries, 1, [id \in MeasIds |-> get_area_value_locks(id, cached)])
  \o Guarded(LockG(group_id, "area"), <<>>)
  \o Each(LockEntries, 1, [id \in MeasIds |-> get_length_value_locks(id, cached)])
  \o Guarded(LockG(group_id, "length"), <<>>)
  \o Guarded(LockG(group_id, "points"), <<>>)
  \o Guarded(LockG(group_id, "count"), <<>>)

\* compute_group: the worker runs while the Ref of the group is held
compute_group_locks(group_id, cached) ==
  ReadRef("groups", GroupWrapper_recompute_locks(group_id, cached))

recompute_measurements_locks(id, cached) ==
  calculate_area_locks(id) \o Guarded(LockM(id, "area"), <<>>)
  \o calculate_length_locks(id) \o Guarded(LockM(id, "length"), <<>>)
  \o measurement_locks(id) \o compute_group_locks("g1", cached)

set_scale_locks(id, cached) ==
  Guarded(LockM(id, "scale"), <<>>) \o recompute_measurements_locks(id, cached)

set_measurement_locks(id, cached) ==
  Guarded(LockM(id, "measurement"), <<>>) \o recompute_measurements_locks(id, cached)

\* calculate_scale that finds a scale: to_geometry, page_id(),
\* get_page_scales, set_scale
calculate_scale_locks(id, cached) ==
  measurement_locks(id) \o measurement_locks(id) \o ReadRef("scales", <<>>)
  \o set_scale_locks(id, cached)

\* compute_measurement: the worker runs while the Ref of the measurement is held
compute_measurement_locks(id, cached) ==
  ReadRef("measurements", calculate_scale_locks(id, cached))

upsert_measurement_locks(id, registered, cached) ==
  IF registered
    THEN ReadRef("measurements", set_measurement_locks(id, cached) \o measurement_locks(id))
    ELSE ReadRef("measurements", <<>>) \o WriteRef("measurements", <<>>)
         \o compute_measurement_locks(id, cached) \o compute_group_locks("g1", cached)

remove_measurement_locks(id, cached) ==
  WriteRef("measurements", <<>>) \o measurement_locks(id) \o compute_group_locks("g1", cached)
  \o measurement_locks(id)

\* get_measurement_scale: get_mut, then get_scale() of the wrapper
get_measurement_scale_locks(id) ==
  WriteRef("measurements", Guarded(LockM(id, "scale"), <<>>))

compute_page_locks(cached) ==
  ReadRef("measurements", Each(LockEntries, 1, [id \in MeasIds |-> measurement_locks(id)]))
  \o Each(LockEntries, 1, [id \in MeasIds |-> calculate_scale_locks(id, cached)])

upsert_scale_locks(cached) == WriteRef("scales", <<>>) \o compute_page_locks(cached)

\* the calls a thread may make: [op, id, steps]
LockCalls ==
  { [op |-> "get_area_value", id |-> "m1", steps |-> get_area_value_locks("m1", c)] :
      c \in BOOLEAN }
  \cup { [op |-> "get_length_value", id |-> "m1", steps |-> get_length_value_locks("m1", c)] :
           c \in BOOLEAN }
  \cup { [op |-> "upsert_measurement", id |-> id,
          steps |-> upsert_measurement_locks(id, id = "m1", FALSE)] : id \in MeasIds }
  \cup { [op |-> "remove_measurement", id |-> "m2",
          steps |-> remove_measurement_locks("m2", TRUE)],
         [op |-> "upsert_scale", id |-> "s1", steps |-> upsert_scale_locks(TRUE)],
         [op |-> "get_measurement_scale", id |-> "m1",
          steps |-> get_measurement_scale_locks("m1")] }

\* the registry of the run: g1, the Default scale s1 of p1, and the
\* Rectangle m1 and the Polyline m2 on p1 in g1
LockStart ==
  upsert_measurement(
    upsert_measurement(
      upsert_scale(upsert_group(EmptyState, "g1"),
                   DefaultScale("s1", "p1", ScaleDefinition(2, 1)), <<>>, <<"s1">>),
      Measurement(RectIn.kind, "m1", "p1", "g1", RectIn.pts), <<"s1">>),
    Measurement(LineIn.kind, "m2", "p1", "g1", LineIn.pts), <<"s1">>)

InitLock ==
  \E st \in {LockStart} :
    /\ pages = st.pages
    /\ groups = st.groups
    /\ measurements = st.measurements
    /\ scales = st.scales
    /\ poisoned = st.poisoned
    /\ panicked = st.panicked
    /\ last = Call("new", "", 0)
    /\ nops = 0
    /\ pc = [t \in Threads |-> "call"]
    /\ snap = [t \in Threads |-> {}]
    /\ workers = {}
    /\ ret = None
    /\ prog = [t \in Threads |-> <<>>]
    /\ held = [t \in Threads |-> <<>>]
    /\ handle = None

\* the number of holders of the lock, over all threads
RECURSIVE Holders(_, _)
Holders(lock, ts) ==
  IF ts = {} THEN 0
  ELSE LET Count(t) ==
             Cardinality({ i \in 1..Len(held[t]) : held[t][i][2] = lock })
               + Holders(lock, ts \ {t})
       IN Count(CHOOSE t \in ts : TRUE)

Writers(lock) ==
  { t \in Threads : \E i \in 1..Len(held[t]) : held[t][i] = <<"write", lock>> }

\* std::sync::Mutex::lock and the shard lock of dashmap: when the thread may
\* take the step
Admitted(step) ==
  CASE step[1] = "lock" -> Holders(step[2], Threads) = 0
    [] step[1] = "read" -> Writers(step[2]) = {}
    [] step[1] = "write" -> Holders(step[2], Threads) = 0
    [] OTHER -> TRUE

Acquires(step) == step[1] \in {"lock", "read", "write"}

\* held without its last entry for the lock
RECURSIVE Dropped(_, _, _)
Dropped(hs, lock, i) ==
  IF i = 0 THEN hs
  ELSE IF hs[i][2] = lock THEN SubSeq(hs, 1, i - 1) \o SubSeq(hs, i + 1, Len(hs))
  ELSE Dropped(hs, lock, i - 1)

LockFrame == UNCHANGED <<pages, groups, measurements, scales, poisoned, panicked, nops, snap,
                         workers, ret, handle>>

\* the thread enters its call
LockCall(t) ==
  \E c \in LockCalls :
    /\ pc[t] = "call"
    /\ pc' = [pc EXCEPT ![t] = "running"]
    /\ prog' = [prog EXCEPT ![t] = c.steps]
    /\ last' = Call(c.op, c.id, t)
    /\ UNCHANGED held
    /\ LockFrame

\* the thread takes a mutex or a shard lock, blocking until it is admitted
LockAcquire(t) ==
  /\ pc[t] = "running" /\ prog[t] # <<>>
  /\ Acquires(Head(prog[t])) /\ Admitted(Head(prog[t]))
  /\ held' = [held EXCEPT ![t] = Append(held[t], Head(prog[t]))]
  /\ prog' = [prog EXCEPT ![t] = Tail(prog[t])]
  /\ UNCHANGED <<pc, last>>
  /\ LockFrame

\* a guard or Ref is dropped
LockRelease(t) ==
  /\ pc[t] = "running" /\ prog[t] # <<>>
  /\ ~Acquires(Head(prog[t]))
  /\ held' = [held EXCEPT ![t] = Dropped(held[t], Head(prog[t])[2], Len(held[t]))]
  /\ prog' = [prog EXCEPT ![t] = Tail(prog[t])]
  /\ UNCHANGED <<pc, last>>
  /\ LockFrame

\* the call returns
LockReturn(t) ==
  /\ pc[t] = "running" /\ prog[t] = <<>>
  /\ pc' = [pc EXCEPT ![t] = "returned"]
  /\ UNCHANGED <<prog, held, last>>
  /\ LockFrame

LockThread(t) == LockCall(t) \/ LockAcquire(t) \/ LockRelease(t) \/ LockReturn(t)

NextLock == \E t \in Threads : LockThread(t)

SpecLock == InitLock /\ [][NextLock]_vars

\* every thread that can take a step eventually takes one
SpecLockFair == SpecLock /\ \A t \in Threads : WF_vars(LockThread(t))

(* ------------------------------------------------------------------ *)
(* Construction from initial options (SpecNew)                          *)
(* The registry is built by TakeoffStateHandler::new(Some(options)) and *)
(* is then read, or loses a measurement.                                *)
(* ------------------------------------------------------------------ *)
RECURSIVE InsertPages(_, _)
InsertPages(st, ps) ==
  IF ps = {} THEN st
  ELSE LET Rest(page) == InsertPages(upsert_page(st, page), ps \ {page})
       IN Rest(CHOOSE page \in ps : TRUE)

RECURSIVE InsertScales(_, _)
InsertScales(st, ss) ==
  IF ss = {} THEN st
  ELSE LET Rest(scale) ==
             InsertScales([st EXCEPT !.scales = MapInsert(st.scales, scale.id, scale)],
                          ss \ {scale})
       IN Rest(CHOOSE scale \in ss : TRUE)

\* groups.insert(id, GroupWrapper::new(group, ..)) for every group
RECURSIVE InsertGroups(_, _)
InsertGroups(st, gs) ==
  IF gs = {} THEN st
  ELSE LET Rest(g) == InsertGroups(upsert_group(st, g), gs \ {g})
       IN Rest(CHOOSE g \in gs : TRUE)

\* measurements.insert(id, MeasurementWrapper::new(measurement, ..)) for
\* every measurement
RECURSIVE InsertMeasurements(_, _)
InsertMeasurements(st, ms) ==
  IF ms = {} THEN st
  ELSE LET Rest(m) ==
             InsertMeasurements(
               [st EXCEPT !.measurements =
                  MapInsert(st.measurements, m.id, MeasurementWrapper_new(m))],
               ms \ {m})
       IN Rest(CHOOSE m \in ms : TRUE)

\* pages, then scales, then groups, then measurements
add_initial_options(st, options) ==
  InsertMeasurements(
    InsertGroups(InsertScales(InsertPages(st, options.pages), options.scales),
                 options.groups),
    options.measurements)

\* calculate_scale on every registered measurement, in the iteration order
\* `visit` of the measurement map
compute_measurements(st, visit, order) == ComputePageLoop(st, visit, 1, order)

TakeoffStateHandler_new(options, visit, order) ==
  compute_measurements(add_initial_options(EmptyState, options), visit, order)

NewScales ==
  { DefaultScale("s1", "p1", ScaleDefinition(2, 1)),
    AreaScale("s2", "p1", ScaleDefinition(1, 1), <<Pt(0, 0), Pt(4, 4)>>) }

\* the initial measurements: m1 on (p1, g1) with a valid shape or left out,
\* m2 as the rectangle on p1 in either group or left out
NewMeasurements ==
  { one \cup two :
      one \in {{}} \cup { {Measurement(sh.kind, "m1", "p1", "g1", sh.pts)} :
                            sh \in {CountIn, RectIn, PolyOut, LineIn} },
      two \in {{}} \cup { {Measurement(RectIn.kind, "m2", "p1", g, RectIn.pts)} :
                            g \in GroupIds } }

NewOptions ==
  [pages : SUBSET {Page("p1", <<>>)}, scales : SUBSET NewScales,
   groups : SUBSET GroupIds, measurements : NewMeasurements]

InitNew ==
  \E options \in NewOptions :
    \E visit \in Perms({ m.id : m \in options.measurements }) :
      \E order \in Perms({ sc.id : sc \in options.scales }) :
        \E st \in {TakeoffStateHandler_new(options, visit, order)} :
          /\ pages = st.pages
          /\ groups = st.groups
          /\ measurements = st.measurements
          /\ scales = st.scales
          /\ poisoned = st.poisoned
          /\ panicked = st.panicked
          /\ last = Call("new", "", 0)
          /\ nops = 0
          /\ pc = [t \in Threads |-> "idle"]
          /\ snap = [t \in Threads |-> {}]
          /\ workers = {}
          /\ ret = None
          /\ prog = [t \in Threads |-> <<>>]
          /\ held = [t \in Threads |-> <<>>]
          /\ handle = None

NextNew ==
  \/ GetArea
  \/ RemoveMeasurement

SpecNew == InitNew /\ [][NextNew]_vars

(* ------------------------------------------------------------------ *)
(* Wrapper clones kept by a caller (SpecHandle)                         *)
(* get_measurement and get_group return a clone of the wrapper in the   *)
(* map.  The clone shares the Arc fields of the wrapper it was cloned   *)
(* from for as long as that wrapper is the one in the map; once the map *)
(* entry is removed or replaced by a new wrapper, the clone keeps the   *)
(* cells of the old one.                                                *)
(* ------------------------------------------------------------------ *)
\* #[derive(Clone)] on MeasurementWrapper: measurement, scale, area and
\* length are Arc<Mutex<..>> and stay shared (points is a plain f64)
MeasurementWrapper_clone(w) ==
  [measurement |-> w.measurement, scale |-> w.scale, area |-> w.area, length |-> w.length]

\* #[derive(Clone)] on GroupWrapper: area, length, points and count are
\* Arc<Mutex<..>> and stay shared
GroupWrapper_clone(w) ==
  [area |-> w.area, length |-> w.length, points |-> w.points, count |-> w.count]

\* the cells of the wrapper registered under the id
EntryCells(st, kind, id) ==
  IF kind = "measurement" THEN MeasurementWrapper_clone(st.measurements[id])
  ELSE GroupWrapper_clone(st.groups[id])

EntryRegistered(st, kind, id) ==
  IF kind = "measurement" THEN id \in DOMAIN st.measurements ELSE id \in DOMAIN st.groups

\* shared: the clone's cells are the cells of the wrapper in the map
\* cells: what the clone's cells hold;  taken: what they held when obtained
\* kept: the entry was not removed, nor re-created by upsert_group, since
Handle(st, kind, id) ==
  [kind |-> kind, id |-> id, shared |-> TRUE, cells |-> EntryCells(st, kind, id),
   taken |-> EntryCells(st, kind, id), kept |-> TRUE]

get_measurement(st, measurement_id) ==
  IF measurement_id \in DOMAIN st.measurements
    THEN Some(Handle(st, "measurement", measurement_id)) ELSE None

get_group(st, group_id) ==
  IF group_id \in DOMAIN st.groups THEN Some(Handle(st, "group", group_id)) ELSE None

upsert_measurement_inserts_always(st, id) == TRUE

\* upsert_measurement puts a new wrapper into the map only when the id is
\* not registered; a registered wrapper is updated through set_measurement
upsert_measurement_inserts(st, id) == id \notin DOMAIN st.measurements

\* the call, made on st, takes the wrapper the clone came from out of the
\* map: measurements.remove, measurements.insert or groups.insert under its id
Unshares(st, call, h) ==
  /\ call.id = h.id
  /\ IF h.kind = "measurement"
       THEN \/ call.op = "remove_measurement"
            \/ call.op = "upsert_measurement" /\ upsert_measurement_inserts(st, h.id)
       ELSE call.op = "upsert_group"

\* the call removes the entry, or re-creates it by upsert_group
RemovesOrRecreates(call, h) ==
  /\ call.id = h.id
  /\ IF h.kind = "measurement" THEN call.op = "remove_measurement"
     ELSE call.op = "upsert_group"

Followed(h, shared, before, after, call) ==
  [h EXCEPT !.shared = shared,
            !.cells = IF shared THEN EntryCells(after, h.kind, h.id) ELSE h.cells,
            !.kept = h.kept /\ ~RemovesOrRecreates(call, h)]

\* the clone after a call that took the registry from `before` to `after`
Follows(hd, before, after, call) ==
  IF hd = None THEN None
  ELSE Some(Followed(Unwrap(hd), Unwrap(hd).shared /\ ~Unshares(before, call, Unwrap(hd)),
                     before, after, call))

Tracks(st, call) ==
  /\ pages' = st.pages
  /\ groups' = st.groups
  /\ measurements' = st.measurements
  /\ scales' = st.scales
  /\ poisoned' = st.poisoned
  /\ panicked' = st.panicked
  /\ last' = call
  /\ nops' = nops + 1
  /\ handle' = Follows(handle, St, st, call)
  /\ UNCHANGED <<pc, snap, workers, ret, prog, held>>

Takes(op, id, hd) ==
  /\ handle' = hd
  /\ last' = Call(op, id, 0)
  /\ UNCHANGED <<pages, groups, measurements, scales, poisoned, panicked, nops, pc, snap,
                 workers, ret, prog, held>>

HandleGetMeasurement ==
  \E id \in MeasIds :
    /\ handle = None
    /\ Takes("get_measurement", id, get_measurement(St, id))

HandleGetGroup ==
  \E g \in GroupIds :
    /\ handle = None
    /\ Takes("get_group", g, get_group(St, g))

HandleUpsertGroup ==
  \E g \in GroupIds :
    /\ nops < MaxOps
    /\ Tracks(upsert_group(St, g), Call("upsert_group", g, 0))

HandleUpsertMeasurement ==
  \E m \in Measurements :
    \E order \in Perms(DOMAIN scales) :
      /\ nops < MaxOps
      /\ Tracks(upsert_measurement(St, m, order),
                Call("upsert_measurement", m.id, IF m.id \in DOMAIN measurements THEN 1 ELSE 0))

HandleRemoveMeasurement ==
  \E id \in MeasIds :
    /\ nops < MaxOps
    /\ Tracks(remove_measurement(St, id), Call("remove_measurement", id, 0))

HandleUpsertScale ==
  \E s \in Scales :
    \E visit \in Perms(get_measurements_by_page_id(St, s.page_id)) :
      \E order \in Perms(DOMAIN scales \cup {s.id}) :
        /\ nops < MaxOps
        /\ Tracks(upsert_scale(St, s, visit, order), Call("upsert_scale", s.id, 0))

NextHandle ==
  \/ HandleGetMeasurement
  \/ HandleGetGroup
  \/ HandleUpsertGroup
  \/ HandleUpsertMeasurement
  \/ HandleRemoveMeasurement
  \/ HandleUpsertScale

SpecHandle == Init /\ [][NextHandle]_vars

(* ------------------------------------------------------------------ *)
(* Properties of sequential runs (Spec)                                 *)
(* ------------------------------------------------------------------ *)
PageScales(page_id) ==
  { scales[i] : i \in { j \in DOMAIN scales : scales[j].page_id = page_id } }

ValidGeometry(id) == to_geometry(measurements[id].measurement).ok

Geometry(id) == Unwrap(to_geometry(measurements[id].measurement).val)

OneAreaOneDefault(page_id) ==
  /\ Cardinality(PageScales(page_id)) = 2
  /\ \E a, d \in PageScales(page_id) : a.kind = "Area" /\ d.kind = "Default"

TheArea(page_id) == CHOOSE a \in PageScales(page_id) : a.kind = "Area"

TheDefault(page_id) == CHOOSE d \in PageScales(page_id) : d.kind = "Default"

\* what the resolver yields for the registered measurement id on the scales
\* registered now, for every iteration order of the scale map
ResolveResults(id) ==
  IF ~ValidGeometry(id) THEN {None}
  ELSE { ResolveLoop(get_page_scales(St, measurements[id].measurement.page_id, order),
                     Geometry(id), 1, None) : order \in Perms(DOMAIN scales) }

RECURSIVE SumOf(_, _)
SumOf(f, S) ==
  IF S = {} THEN 0
  ELSE LET Rest(x) == f[x] + SumOf(f, S \ {x}) IN Rest(CHOOSE y \in S : TRUE)

\* C1: on a page that holds exactly one Area scale and one Default scale, the
\* scale a measurement of the page has after upsert_measurement returned is
\* the Area scale when its geometry lies inside the bounding box and the
\* Default scale otherwise, whatever the order of the upserts before.
C1_ScalePrecedence ==
  (last.op = "upsert_measurement" /\ last.id \in DOMAIN measurements) =>
    LET page_id == measurements[last.id].measurement.page_id
    IN (OneAreaOneDefault(page_id) /\ ValidGeometry(last.id)) =>
         get_scale(St, last.id) =
           IF is_in_bounding_box(TheArea(page_id), Geometry(last.id))
             THEN Some(TheArea(page_id))
             ELSE Some(TheDefault(page_id))

\* C2: once upsert_scale or remove_scale on a scale of page P has returned,
\* every measurement of P (with a valid geometry) has the scale the resolver
\* yields on its geometry and the scales registered now: none when the last
\* scale of P has been removed.
C2_ScaleFollowsResolver ==
  [][ \A s \in ScaleIds :
        (nops' = nops + 1 /\ last'.id = s /\ last'.op \in {"upsert_scale", "remove_scale"}) =>
          \A id \in DOMAIN measurements' :
            (measurements'[id].measurement.page_id =
               (IF last'.op = "upsert_scale" THEN scales'[s].page_id
                ELSE IF s \in DOMAIN scales THEN scales[s].page_id ELSE "none"))
            => (ValidGeometry(id) => get_scale(St, id) \in ResolveResults(id))' ]_vars

PresentAreas(group_id) ==
  { id \in get_measurements_by_group_id(St, group_id) : IsSome(get_area(St, id)) }

\* C3: in every state between calls the area of a group is the sum of the
\* areas of its members that have one, and is absent when none has.
C3_GroupAreaIsSum ==
  \A g \in DOMAIN groups :
    Group_get(St, g, "area") =
      IF PresentAreas(g) = {} THEN None
      ELSE Some(SumOf([id \in PresentAreas(g) |-> Unwrap(get_area(St, id))], PresentAreas(g)))

\* C4: in every state between calls the count of a group is defined and is
\* the number of registered measurements whose group_id is the group's id.
C4_GroupCountIsMembers ==
  \A g \in DOMAIN groups :
    Group_get(St, g, "count") = Some(Cardinality(get_measurements_by_group_id(St, g)))

\* C5: from every state between calls, upsert_measurement of a measurement
\* with a fresh id followed by remove_measurement of that id leaves the
\* area, length, points and count of its group as they were.
C5_UpsertRemoveRestoresGroup ==
  \A m \in Measurements : \A order \in Perms(DOMAIN scales) :
    (m.id \notin DOMAIN measurements /\ m.group_id \in DOMAIN groups) =>
      remove_measurement(upsert_measurement(St, m, order), m.id).groups[m.group_id]
        = groups[m.group_id]

\* C6: remove_group of a registered group leaves the group absent, every
\* measurement that had its group_id absent, and every other measurement and
\* group as it was.
C6_RemoveGroupCascades ==
  [][ \A g \in DOMAIN groups :
        (nops' = nops + 1 /\ last'.op = "remove_group" /\ last'.id = g) =>
          /\ g \notin DOMAIN groups'
          /\ \A id \in DOMAIN measurements :
               IF measurements[id].measurement.group_id = g
                 THEN id \notin DOMAIN measurements'
                 ELSE id \in DOMAIN measurements' /\ measurements'[id] = measurements[id]
          /\ \A h \in DOMAIN groups \ {g} : h \in DOMAIN groups' /\ groups'[h] = groups[h] ]_vars

\* remove_group has removed a group with members while a measurement of
\* another group is registered
C6_Witness ==
  /\ last.op = "remove_group"
  /\ last.n >= 1
  /\ last.id \notin DOMAIN groups
  /\ DOMAIN measurements # {}

\* C9: in every state between calls (every set_scale and set_measurement has
\* returned) a cached read of the area and of the length of a measurement
\* with a valid geometry equals the value derived afresh from its geometry
\* and scale.
C9_CacheCoherent ==
  \A id \in DOMAIN measurements :
    ValidGeometry(id) =>
      /\ get_area_value(St, id).res = calculate_area(St, id)
      /\ get_length_value(St, id).res = calculate_length(St, id)

\* C10: after upsert_measurement with an id that was registered and a valid
\* geometry, the scale of the measurement is the one the resolver yields for
\* its new geometry and page.
C10_ReupsertResolvesScale ==
  (last.op = "upsert_measurement" /\ last.n = 1 /\ ValidGeometry(last.id)) =>
    get_scale(St, last.id) \in ResolveResults(last.id)

(* ------------------------------------------------------------------ *)
(* Properties of runs with a poisoned mutex (SpecPoison)                *)
(* ------------------------------------------------------------------ *)
\* the cell a field mutex guards
Cell(lock) ==
  IF lock[1] = "measurement" THEN measurements[lock[2]][lock[3]] ELSE groups[lock[2]][lock[3]]

\* the measurement id is registered with the group group_id
MemberOf(id, group_id) ==
  id \in DOMAIN measurements /\ measurements[id].measurement.group_id = group_id

\* C8: when a field mutex of a measurement or of a group is poisoned, an
\* upsert_measurement or remove_measurement of that measurement (of a
\* measurement of that group) does not panic, and the cell behind the
\* poisoned mutex keeps its value.
C8_PoisonTolerated ==
  [][ \A lock \in poisoned : \A id \in MeasIds :
        ( /\ nops' = nops + 1
          /\ last'.op \in {"upsert_measurement", "remove_measurement"}
          /\ last'.id = id
          /\ IF lock[1] = "measurement" THEN id = lock[2]
             ELSE MemberOf(id, lock[2]) \/ MemberOf(id, lock[2])' )
        => /\ ~panicked'
           /\ lock \in poisoned' => Cell(lock)' = Cell(lock) ]_vars

\* C35: in every registry state the inline dispatch of compute_measurement
\* and of compute_group leaves the registry as the threaded dispatch does
\* and returns normally when the threaded one does, also when the recompute
\* of the group fails.
C35_DispatchEquivalent ==
  /\ \A id \in MeasIds : \A order \in Perms(DOMAIN scales) :
       compute_measurement_inline(St, id, order) = compute_measurement(St, id, order)
  /\ \A g \in GroupIds : compute_group_inline(St, g) = compute_group(St, g)

(* ------------------------------------------------------------------ *)
(* Properties of concurrent upserts (SpecConc)                          *)
(* ------------------------------------------------------------------ *)
AllReturned == \A t \in Threads : pc[t] = "done"

\* C7: once the NThreads concurrent upsert_measurement calls (distinct fresh
\* ids, the same registered group) have all returned, the count of the group
\* is NThreads, under every interleaving of their steps.
C7_ConcurrentUpsertsAllCounted ==
  AllReturned => Group_get(St, "g1", "count") = Some(NThreads)

(* ------------------------------------------------------------------ *)
(* Properties of sequential runs (Spec), continued                      *)
(* ------------------------------------------------------------------ *)
\* the cells of the registered group group_id agree with a recompute over
\* the measurements registered with it now
AggregateCurrent(group_id) ==
  groups[group_id] = GroupWrapper_new(St, group_id).cells

\* C11: after upsert_measurement of a registered id with a group_id other
\* than the one it had, the area, length, points and count of the new group
\* (when registered) include the measurement and those of the former group
\* (when registered) no longer do: each agrees with a recompute over its
\* members.
C11_GroupChangeMovesMember ==
  [][ \A id \in DOMAIN measurements : \A g \in GroupIds :
        ( /\ nops' = nops + 1
          /\ last' = Call("upsert_measurement", id, 1)
          /\ measurements'[id].measurement.group_id # measurements[id].measurement.group_id
          /\ g \in DOMAIN groups
          /\ g \in {measurements[id].measurement.group_id, measurements'[id].measurement.group_id} )
        => AggregateCurrent(g)' ]_vars

(* ------------------------------------------------------------------ *)
(* Properties of a call with its scoped workers (SpecJoin)              *)
(* ------------------------------------------------------------------ *)
\* C12: when the call has returned, every worker it spawned has finished,
\* and a read sees what they recomputed: the scale the resolver yields for
\* the measurement a compute_measurement worker ran on, and for the group a
\* compute_group worker ran on the aggregate of a recompute over its members.
C12_FireAndJoin ==
  (pc[1] = "returned") =>
    \A w \in workers :
      /\ w.done
      /\ (w.job = "group" /\ w.id \in DOMAIN groups) => AggregateCurrent(w.id)
      /\ (w.job = "measurement" /\ w.id \in DOMAIN measurements /\ ValidGeometry(w.id)) =>
           get_scale(St, w.id) \in ResolveResults(w.id)

\* an upsert_measurement of a fresh id has returned after both of its
\* workers ran, with a scale assigned by the first
C12_Witness ==
  /\ pc[1] = "returned"
  /\ Cardinality(workers) = 2
  /\ last.op = "upsert_measurement"
  /\ last.id \in DOMAIN measurements
  /\ IsSome(get_scale(St, last.id))

(* ------------------------------------------------------------------ *)
(* Properties of the reads of one measurement (SpecRead)                *)
(* ------------------------------------------------------------------ *)
Returned(op) == last.op = op

TheMeasurement == measurements[last.id].measurement

NoScale == IsNone(measurements[last.id].scale)

\* C13: for a measurement with valid geometry and no scale assigned,
\* convert_area, convert_length, get_area and get_length return absent,
\* while raw_area and raw_perimeter return a pixel value.
C13_NoScaleNoConversion ==
  (validate(TheMeasurement).ok /\ NoScale) =>
    /\ Returned("convert_area") => ret = Ok(None)
    /\ Returned("convert_length") => ret = Ok(None)
    /\ Returned("get_area") => ret = None
    /\ Returned("get_length") => ret = Ok(None)
    /\ Returned("raw_area") => ret.ok
    /\ Returned("raw_perimeter") => ret.ok

TheScale == Unwrap(measurements[last.id].scale).scale

PolygonOrRectangle ==
  /\ TheMeasurement.kind \in {"Polygon", "Rectangle"}
  /\ validate(TheMeasurement).ok
  /\ ~NoScale
  /\ TheScale.pixel_distance > 0 /\ TheScale.real_distance > 0

Defaults(page_id) == { s \in PageScales(page_id) : s.kind = "Default" }

InNoArea(id) ==
  \A a \in PageScales(measurements[id].measurement.page_id) :
    ~is_in_bounding_box(a, Geometry(id))

\* C15: when upsert_scale has registered a Default scale on a page that holds
\* another Default scale, every measurement of the page with valid geometry
\* that no Area scale contains has the scale just upserted.
C15_LastDefaultWins ==
  (last.op = "upsert_scale" /\ scales[last.id].kind = "Default"
     /\ Cardinality(Defaults(scales[last.id].page_id)) > 1) =>
    \A id \in DOMAIN measurements :
      (measurements[id].measurement.page_id = scales[last.id].page_id
         /\ ValidGeometry(id) /\ InNoArea(id)) =>
        get_scale(St, id) = Some(scales[last.id])

\* C16: a measurement inserted on a page that holds no scale has no scale,
\* and whenever a step gives a measurement a scale, that scale is one of the
\* scales registered for the measurement's own page.
C16_FailsClosedPageScoped ==
  [][ \A id \in MeasIds : \A page_id \in PageIds :
        ( /\ id \in DOMAIN measurements'
          /\ measurements'[id].measurement.page_id = page_id )
        => /\ (id \notin DOMAIN measurements /\ PageScales(page_id)' = {})
                => IsNone(get_scale(St, id)')
           /\ ( /\ IsSome(measurements'[id].scale)
                /\ \/ id \notin DOMAIN measurements
                   \/ measurements[id].scale # measurements'[id].scale )
                => Unwrap(measurements'[id].scale) \in PageScales(page_id)' ]_vars

\* a measurement was inserted on a page without scales while another page
\* holds one, and it has no scale
C16_Witness ==
  /\ last.op = "upsert_measurement" /\ last.n = 0
  /\ PageScales(measurements[last.id].measurement.page_id) = {}
  /\ scales # EmptyMap
  /\ ValidGeometry(last.id)
  /\ IsNone(get_scale(St, last.id))

\* C17: get_measurements_missing_scale returns exactly the registered
\* measurements for which the resolver finds no applicable scale among the
\* scales now registered for their page.
C17_MissingScaleIsUnresolvable ==
  get_measurements_missing_scale(St)
    = { id \in DOMAIN measurements : ResolveResults(id) = {None} }

(* ------------------------------------------------------------------ *)
(* Properties of the reads of one measurement (SpecRead): geometry      *)
(* ------------------------------------------------------------------ *)
TooFewPoints ==
  \/ TheMeasurement.kind = "Polygon" /\ Len(TheMeasurement.pts) < 3
  \/ TheMeasurement.kind = "Polyline" /\ Len(TheMeasurement.pts) < 2
  \/ TheMeasurement.kind = "Rectangle" /\ TheMeasurement.pts[1] = TheMeasurement.pts[2]

\* C18: validate returns EmptyGeometry exactly for a Polygon of fewer than 3
\* points, a Polyline of fewer than 2 points and a Rectangle whose corners
\* coincide, never for a Count; pixel_area, pixel_perimeter and to_geometry
\* of such a measurement return that error.
C18_ValidateRejectsDegenerate ==
  /\ Returned("validate") =>
       /\ (ret = Err("EmptyGeometry")) <=> TooFewPoints
       /\ ret.ok <=> ~TooFewPoints
  /\ (TooFewPoints /\ (Returned("pixel_area") \/ Returned("pixel_perimeter")
                        \/ Returned("to_geometry")))
       => ret = Err("EmptyGeometry")

\* pixel_perimeter of a Rectangle whose corners coincide returned the error
C18_Witness ==
  /\ Returned("pixel_perimeter")
  /\ TheMeasurement.kind = "Rectangle"
  /\ TooFewPoints
  /\ ret = Err("EmptyGeometry")

\* C19: raw_area of a valid Count or Polyline is the value 0, and raw_area of
\* a valid Rectangle is |x2 - x1| * |y2 - y1|.
C19_RawArea ==
  (Returned("raw_area") /\ ~TooFewPoints) =>
    /\ TheMeasurement.kind \in {"Count", "Polyline"} => ret = Ok(0)
    /\ TheMeasurement.kind = "Rectangle" =>
         ret = Ok(Abs(TheMeasurement.pts[2].x - TheMeasurement.pts[1].x)
                    * Abs(TheMeasurement.pts[2].y - TheMeasurement.pts[1].y))

\* the sum of the distances between the points i and i + 1 for i in from..to,
\* the point after the last being the first
RECURSIVE EdgeSum(_, _, _)
EdgeSum(pts, from, to) ==
  IF from > to THEN 0
  ELSE distance_to(pts[from], pts[(from % Len(pts)) + 1]) + EdgeSum(pts, from + 1, to)

\* C20: raw_perimeter of a valid measurement is 0 for a Count, the sum of the
\* n edges (closing edge included) for a Polygon of n points, 2 * (w + h) for
\* a Rectangle, and the sum of the n - 1 segments (no closing edge) for a
\* Polyline of n points.
C20_RawPerimeter ==
  (Returned("raw_perimeter") /\ ~TooFewPoints) =>
    ret = Ok(CASE TheMeasurement.kind = "Count" -> 0
               [] TheMeasurement.kind = "Polygon" ->
                    EdgeSum(TheMeasurement.pts, 1, Len(TheMeasurement.pts))
               [] TheMeasurement.kind = "Rectangle" ->
                    2 * (Abs(TheMeasurement.pts[2].x - TheMeasurement.pts[1].x)
                         + Abs(TheMeasurement.pts[2].y - TheMeasurement.pts[1].y))
               [] OTHER -> EdgeSum(TheMeasurement.pts, 1, Len(TheMeasurement.pts) - 1))

\* raw_perimeter of a Polyline whose end points differ returned the length
\* of its segments: for (0,0), (6,0), (6,8) that is 14, the closing edge of
\* length 10 left out
C20_Witness ==
  /\ Returned("raw_perimeter")
  /\ TheMeasurement.kind = "Polyline"
  /\ TheMeasurement.pts = <<Pt(0, 0), Pt(6, 0), Pt(6, 8)>>
  /\ ret = Ok(14)

(* ------------------------------------------------------------------ *)
(* Properties of the reads of one measurement (SpecRead): errors        *)
(* ------------------------------------------------------------------ *)
\* C21: for a measurement with a scale assigned and malformed geometry,
\* get_area, get_length and calculate_scale report an error: get_area and
\* calculate_scale return neither absent nor a value, get_length returns Err.
C21_MalformedReportsError ==
  (TooFewPoints /\ ~NoScale) =>
    /\ Returned("get_area") => ~IsNone(ret) /\ ~IsSome(ret)
    /\ Returned("calculate_scale") => ~IsNone(ret) /\ ~IsSome(ret)
    /\ Returned("get_length") => ~ret.ok

\* the read of the cell `cell` of measurement id has returned ret' where
\* `derived` is what the derivation gives in the state before the read
GetOrCompute(id, cell, derived) ==
  /\ IsSome(measurements[id][cell]) =>
       /\ ret' = Ok(measurements[id][cell])
       /\ measurements' = measurements
  /\ IsNone(measurements[id][cell]) =>
       /\ ret' = derived
       /\ derived.ok => measurements'[id][cell] = Unwrap(derived.val)
       /\ ~derived.ok => measurements' = measurements
  /\ measurements'[id].scale = measurements[id].scale
  /\ measurements'[id].measurement = measurements[id].measurement
  /\ \A f \in {"area", "length"} \ {cell} : measurements'[id][f] = measurements[id][f]

\* C34: get_area_value (get_length_value) with an empty cell returns what
\* calculate_area (calculate_length) derives from the scale and geometry and
\* stores it; with a filled cell it returns the cell and changes nothing; the
\* scale and the geometry of the measurement are never changed by the read.
C34_GetOrCompute ==
  [][ \A id \in DOMAIN measurements :
        /\ last' = Call("get_area_value", id, 0) =>
             GetOrCompute(id, "area", calculate_area(St, id))
        /\ last' = Call("get_length_value", id, 0) =>
             GetOrCompute(id, "length", calculate_length(St, id)) ]_vars

\* get_length_value has derived and stored the length 14 of the Polyline
\* (0,0),(6,0),(6,8) with 1 px = 1 m, whose length cell was left empty by
\* the recompute that failed at the area
C34_Witness ==
  /\ Returned("get_length_value")
  /\ TheMeasurement.kind = "Polyline"
  /\ TheMeasurement.pts = <<Pt(0, 0), Pt(6, 0), Pt(6, 8)>>
  /\ ~NoScale /\ TheScale.pixel_distance = 1 /\ TheScale.real_distance = 1
  /\ ret = Ok(Some(14))
  /\ measurements[last.id].length = Some(14)
  /\ IsNone(measurements[last.id].area)

InvalidScaleAssigned ==
  /\ ~NoScale
  /\ TheScale.pixel_distance <= 0 \/ TheScale.real_distance <= 0

C22_DefaultEligibility ==
  ( /\ last.op = "upsert_measurement" /\ last.n = 0
    /\ Defaults(measurements[last.id].measurement.page_id) # {}
    /\ \/ ~ValidGeometry(last.id)
       \/ measurements[last.id].measurement.kind = "Count" /\ InNoArea(last.id) )
  => /\ IsSome(get_scale(St, last.id))
     /\ Unwrap(get_scale(St, last.id)) \in Defaults(measurements[last.id].measurement.page_id)

\* C23: upsert_page and remove_page leave the groups with their aggregates,
\* the measurements with their scale and cached values, and the scales as
\* they were; measurements of a removed page stay registered.
C23_PageCallsChangeOnlyPages ==
  [][ (nops' = nops + 1 /\ last'.op \in {"upsert_page", "remove_page"}) =>
        /\ groups' = groups
        /\ measurements' = measurements
        /\ scales' = scales ]_vars

\* remove_page has removed a page that a registered measurement with a scale
\* and a cached area names
C23_Witness ==
  /\ last.op = "remove_page"
  /\ last.id \notin DOMAIN pages
  /\ \E id \in DOMAIN measurements :
       /\ measurements[id].measurement.page_id = last.id
       /\ IsSome(measurements[id].scale)
       /\ IsSome(measurements[id].area)

Members(group_id) == get_measurements_by_group_id(St, group_id)

\* C24: upsert_measurement registers the measurement whether or not its
\* group_id and page_id are registered; after upsert_group the group's count
\* is the number of registered measurements with its id, its points and area
\* are the sums over them, and with no such measurement the count is 0 and
\* area, length and points are absent.
C24_DanglingTolerated ==
  /\ last.op = "upsert_measurement" => last.id \in DOMAIN measurements
  /\ last.op = "upsert_group" =>
       /\ last.id \in DOMAIN groups
       /\ Group_get(St, last.id, "count") = Some(Cardinality(Members(last.id)))
       /\ Group_get(St, last.id, "points") =
            IF Members(last.id) = {} THEN None
            ELSE Some(SumOf([id \in Members(last.id) |-> measurements[id].points],
                            Members(last.id)))
       /\ Group_get(St, last.id, "area") =
            IF PresentAreas(last.id) = {} THEN None
            ELSE Some(SumOf([id \in PresentAreas(last.id) |-> Unwrap(get_area(St, id))],
                            PresentAreas(last.id)))
       /\ Members(last.id) = {} =>
            /\ Group_get(St, last.id, "count") = Some(0)
            /\ Group_get(St, last.id, "area") = None
            /\ Group_get(St, last.id, "length") = None

\* upsert_group has registered a group that a measurement, inserted before
\* on an unregistered page, already named, and the group has its area
C24_Witness ==
  /\ last.op = "upsert_group"
  /\ \E id \in Members(last.id) :
       /\ measurements[id].measurement.page_id \notin DOMAIN pages
       /\ IsSome(get_area(St, id))
  /\ IsSome(Group_get(St, last.id, "area"))

\* the cells a recompute of the registered group writes in this state
Recomputed(group_id) == Group_recompute(St, group_id, groups[group_id]).cells

\* the members whose get_length_value is Ok(Some(_))
PresentLengths(group_id) ==
  { id \in Members(group_id) :
      get_length_value(St, id).res.ok /\ IsSome(Unwrap(get_length_value(St, id).res.val)) }

\* C28: a recompute of a group writes as area (length) the sum over the
\* members whose area (length) is present, absent when there is none; a
\* member without a scale is counted in count and points and is in neither
\* sum.
C28_AbsentValuesSkipped ==
  \A g \in DOMAIN groups :
    /\ Recomputed(g).area =
         IF PresentAreas(g) = {} THEN None
         ELSE Some(SumOf([id \in PresentAreas(g) |-> Unwrap(get_area(St, id))],
                         PresentAreas(g)))
    /\ Recomputed(g).length =
         IF PresentLengths(g) = {} THEN None
         ELSE Some(SumOf([id \in PresentLengths(g) |->
                            Unwrap(Unwrap(get_length_value(St, id).res.val))],
                         PresentLengths(g)))
    /\ Recomputed(g).count = Some(Cardinality(Members(g)))
    /\ Members(g) # {} =>
         Recomputed(g).points =
           Some(SumOf([id \in Members(g) |-> measurements[id].points], Members(g)))
    /\ \A id \in Members(g) :
         IsNone(measurements[id].scale) => id \notin PresentAreas(g) \cup PresentLengths(g)

\* the insert of a second member has recomputed the group: one member has no
\* scale, the other has an area, and the group holds that area and count 2
C28_Witness ==
  /\ last.op = "upsert_measurement" /\ last.n = 0
  /\ last.id \in DOMAIN measurements
  /\ measurements[last.id].measurement.group_id \in DOMAIN groups
  /\ groups[measurements[last.id].measurement.group_id]
       = Recomputed(measurements[last.id].measurement.group_id)
  /\ \E id, other \in Members(measurements[last.id].measurement.group_id) :
       /\ IsNone(measurements[id].scale) /\ ValidGeometry(id)
       /\ IsSome(get_area(St, other))
       /\ groups[measurements[last.id].measurement.group_id].area = get_area(St, other)
  /\ groups[measurements[last.id].measurement.group_id].count = Some(2)

\* the point count of the geometry the measurement has now
CurrentPoints(id) == MeasurementWrapper_new(measurements[id].measurement).points

\* C29: get_points() of a measurement is 1 for a Count, 4 for a Rectangle
\* and the number of points of its current geometry otherwise, and
\* get_points() of a group with members is the sum of its members'
\* get_points().
C29_PointsFollowGeometry ==
  /\ \A id \in DOMAIN measurements : measurements[id].points = CurrentPoints(id)
  /\ \A g \in DOMAIN groups :
       Members(g) # {} =>
         Group_get(St, g, "points") =
           Some(SumOf([id \in Members(g) |-> measurements[id].points], Members(g)))

\* the area and length cells of the measurement and the cells of its group
\* (when registered) in the registry st
CachedOf(st, id) ==
  <<st.measurements[id].area, st.measurements[id].length,
    IF st.measurements[id].measurement.group_id \in DOMAIN st.groups
      THEN st.groups[st.measurements[id].measurement.group_id] ELSE None>>

RecomputedTwice(once, id) == CachedOf(recompute_measurements(once, id), id) = CachedOf(once, id)

\* C33: recompute_measurements of a registered measurement, called again
\* with scale and geometry unchanged, leaves the cached area, the cached
\* length and the aggregate of its group as the first call left them.
C33_RecomputeIdempotent ==
  \A id \in DOMAIN measurements : RecomputedTwice(recompute_measurements(St, id), id)

\* upsert_scale has run recompute_measurements on a measurement with an
\* area whose registered group holds an area, and a further call changes
\* nothing
C33_Witness ==
  /\ last.op = "upsert_scale"
  /\ \E id \in DOMAIN measurements :
       /\ IsSome(measurements[id].area)
       /\ Unwrap(measurements[id].scale).id = last.id
       /\ measurements[id].measurement.group_id \in DOMAIN groups
       /\ IsSome(groups[measurements[id].measurement.group_id].area)
       /\ recompute_measurements(St, id) = St

\* C36: a registered measurement whose get_scale() is present still has a
\* scale after any call that leaves it registered.
C36_ScaleNeverCleared ==
  [][ \A id \in DOMAIN measurements \cap DOMAIN measurements' :
        IsSome(get_scale(St, id)) => IsSome(get_scale(St, id))' ]_vars

\* remove_scale has removed the only scale of the registry, and a
\* registered measurement still holds it
C36_Witness ==
  /\ last.op = "remove_scale"
  /\ DOMAIN scales = {}
  /\ \E id \in DOMAIN measurements :
       /\ IsSome(get_scale(St, id))
       /\ Unwrap(get_scale(St, id)).id = last.id

(* ------------------------------------------------------------------ *)
(* Properties of calls at lock granularity (SpecLock, SpecLockFair)     *)
(* ------------------------------------------------------------------ *)
FieldLocksHeld(t) == { i \in 1..Len(held[t]) : held[t][i][1] = "lock" }

\* C25: no thread holds more than one field mutex at a time.
C25_OneLockAtATime ==
  \A t \in Threads : Cardinality(FieldLocksHeld(t)) <= 1

C30_UpsertReturnsPrevious ==
  [][ nops' = nops + 1 =>
        /\ last'.op = "upsert_page" =>
             ret' = IF last'.id \in DOMAIN pages THEN Some(pages[last'.id]) ELSE None
        /\ last'.op = "upsert_scale" =>
             ret' = IF last'.id \in DOMAIN scales THEN Some(scales[last'.id]) ELSE None
        /\ last'.op = "upsert_measurement" =>
             /\ IsNone(ret') <=> last'.id \notin DOMAIN measurements
             /\ IsSome(ret') => Unwrap(ret').id = last'.id ]_vars

\* upsert_page has replaced the unnamed page p1 by the page p1 named "plan"
\* and returned the unnamed one
C30_Witness ==
  /\ last.op = "upsert_page"
  /\ pages["p1"] = Page("p1", <<"plan">>)
  /\ ret = Some(Page("p1", <<>>))

\* C31: upsert_group returns None when no group with the id was registered
\* before the call and Some(group) with that id when one was.
C31_UpsertGroupReturn ==
  [][ (nops' = nops + 1 /\ last'.op = "upsert_group") =>
        ret' = IF last'.id \in DOMAIN groups THEN Some(Group(last'.id)) ELSE None ]_vars

\* the registry in the fields the remove calls may touch
Registry == <<pages, groups, measurements, scales>>

\* C32: a remove call with an id that is not registered returns None and
\* leaves pages, groups, measurements and scales with all their cached values
\* unchanged; with a registered id it returns the removed entity and the id
\* is absent afterwards.
C32_RemoveReturnsAndFrames ==
  [][ nops' = nops + 1 =>
        /\ last'.op = "remove_page" =>
             /\ last'.id \notin DOMAIN pages => ret' = None /\ Registry' = Registry
             /\ last'.id \in DOMAIN pages =>
                  ret' = Some(pages[last'.id]) /\ last'.id \notin DOMAIN pages'
        /\ last'.op = "remove_group" =>
             /\ last'.id \notin DOMAIN groups => ret' = None /\ Registry' = Registry
             /\ last'.id \in DOMAIN groups =>
                  ret' = Some(Group(last'.id)) /\ last'.id \notin DOMAIN groups'
        /\ last'.op = "remove_measurement" =>
             /\ last'.id \notin DOMAIN measurements => ret' = None /\ Registry' = Registry
             /\ last'.id \in DOMAIN measurements =>
                  /\ ret' = Some(measurements[last'.id].measurement)
                  /\ last'.id \notin DOMAIN measurements'
        /\ last'.op = "remove_scale" =>
             /\ last'.id \notin DOMAIN scales => ret' = None /\ Registry' = Registry
             /\ last'.id \in DOMAIN scales =>
                  ret' = Some(scales[last'.id]) /\ last'.id \notin DOMAIN scales' ]_vars

\* remove_scale has removed the scale s1 that the registered measurement m1
\* holds, and returned it
C32_Witness ==
  /\ last.op = "remove_scale" /\ last.id = "s1"
  /\ "s1" \notin DOMAIN scales
  /\ IsSome(ret) /\ Unwrap(ret).id = "s1"
  /\ "m1" \in DOMAIN measurements /\ measurements["m1"].scale = ret

\* C38: remove_group with an id that names no registered group returns None
\* and removes no measurement, also when registered measurements carry the
\* id as their group_id.
C38_RemoveUnregisteredGroup ==
  [][ ( /\ nops' = nops + 1 /\ last'.op = "remove_group"
        /\ last'.id \notin DOMAIN groups ) =>
        /\ ret' = None
        /\ DOMAIN measurements' = DOMAIN measurements ]_vars

\* remove_group of the unregistered g1 has returned None while m1 carries g1
C38_Witness ==
  /\ last.op = "remove_group" /\ last.id = "g1" /\ last.n = 0
  /\ ret = None
  /\ "g1" \notin DOMAIN groups
  /\ "m1" \in DOMAIN measurements /\ measurements["m1"].measurement.group_id = "g1"

(* ------------------------------------------------------------------ *)
(* Properties of the construction from initial options (SpecNew)        *)
(* ------------------------------------------------------------------ *)
\* C37: when new(options) has returned, every initial measurement has the
\* scale the resolver yields on the initial scales of its page, and the
\* count, points, area and length of every initial group are the aggregate
\* over the initial measurements with its id.
C37_NewIsConsistent ==
  nops = 0 =>
    /\ \A id \in DOMAIN measurements : get_scale(St, id) \in ResolveResults(id)
    /\ \A g \in DOMAIN groups : AggregateCurrent(g)

(* ------------------------------------------------------------------ *)
(* Properties of wrapper clones kept by a caller (SpecHandle)           *)
(* ------------------------------------------------------------------ *)
\* C39: a wrapper obtained from get_measurement or get_group before later
\* upsert_measurement, remove_measurement or upsert_scale calls holds, after
\* those calls, the same measurement, scale, area and length (for a group:
\* the same area, length, points and count) as the wrapper registered under
\* its id then, provided the entry was not removed and not re-created by
\* upsert_group in between.
C39_HandleSharesCache ==
  \A h \in { handle[i] : i \in DOMAIN handle } :
    h.kept => /\ EntryRegistered(St, h.kind, h.id)
              /\ h.cells = EntryCells(St, h.kind, h.id)

\* a kept group clone whose aggregates a later remove_measurement changed
C39_Witness ==
  \E h \in { handle[i] : i \in DOMAIN handle } :
    /\ h.kind = "group" /\ h.kept
    /\ last.op = "remove_measurement"
    /\ h.cells # h.taken
    /\ h.cells = EntryCells(St, h.kind, h.id)

====
